---- MODULE Spec2Model ----
(***************************************************************************)
(* The struct.pack compatibility shims of pyhula 1.13.1:                   *)
(*   src/pyhula/__init__.py          _safe_struct_pack   (the shipped shim)*)
(*   utils/python313_compat.py       safe_struct_pack    (the same text)   *)
(*   utils/struct_patch.py           safe_struct_pack    (retry on error)  *)
(* each a wrapper around the interpreter's struct.pack, which the shims    *)
(* keep as original_pack / _original_pack / _original_struct_pack.         *)
(*                                                                         *)
(* Python values are records of one shape, [kind, neg, mag, frac, str]:    *)
(*   kind "int"   : the integer (-1)^neg * mag                             *)
(*   kind "bool"  : True is mag <<1>>, False is mag <<>>                   *)
(*   kind "float" : the finite float (-1)^neg * (mag + frac/10), or with   *)
(*                  str <<"inf">> an infinity, with str <<"nan">> a NaN    *)
(*   kind "str"   : the string whose characters are str                    *)
(*   kind "none"  : None                                                   *)
(*   kind "raise" : an exception in flight, str = <<type, message>>        *)
(* Python ints are unbounded, so a magnitude is a sequence of base-256     *)
(* limbs, least significant first, without a most significant zero limb.   *)
(* A format string is the sequence of its characters.                      *)
(***************************************************************************)
EXTENDS Integers, Sequences, FiniteSets, TLC

(* One call of one function, seen whole *)
VARIABLES call_format, call_values, callee, result

(* Threads that call the patched struct.pack, a statement at a time *)
VARIABLES calling, pc, loop_i, converted_list, ret, returned, calls_left

(* array.array, and the three arrays of the test of the array patch *)
VARIABLES array_array, test_bytes, arr, arr2, arr3

(* The name struct.pack, the delegates the modules keep, and the script run *)
VARIABLES struct_pack_attr, _original_struct_pack_attr, _original_pack_attr, script

(* The installed package: the interpreter, __init__.py as installed and as *)
(* it is now, the backup directories, and the runs of the two patchers    *)
VARIABLES version, installed, init_file, python313_backup, userapi_backup,
          python36_backup, runs313, runs36

(* The import system: the interpreter, the packages on the path, the finders, *)
(* the modules imported, the frames of the import in progress, the value    *)
(* being returned, the module being imported and how the last import ended  *)
VARIABLES hook_version, on_path, meta_path, sys_modules, stack, retval, importing, status

(* A SafePyHulaConnection: its api (0 for None, else the number of the     *)
(* UserApi instance) and its connected flag; the UserApi instances made;   *)
(* and the last call on it: its name, connected as the call found it, its  *)
(* retries, what each api.connect() it made did, the create_api() calls of *)
(* its handlers, and how it ended                                          *)
VARIABLES api, connected, made, connect_op, was_connected, retries, tried, fresh, outcome

(* The class SingletonPyHula: _instance (0 for None), the objects made, the *)
(* _api and _connected of each, the holder of _lock (0 for none), the       *)
(* UserApi instances made; and each thread's statement, its self, the       *)
(* objects its calls of SingletonPyHula() returned and the calls it has left *)
VARIABLES _instance, objects, _api, _connected, _lock, constructed,
          spc, self_of, got, ops_left

(* test_flight_sequence: where it is, the step of the loop, the result of *)
(* each step so far and the commands the drone was sent                   *)
VARIABLES flight_pc, step, results, issued

pack_vars == <<call_format, call_values, callee, result>>

thread_vars == <<calling, pc, loop_i, converted_list, ret, returned, calls_left>>

array_vars == <<array_array, test_bytes, arr, arr2, arr3>>

patch_vars == <<struct_pack_attr, _original_struct_pack_attr, _original_pack_attr, script>>

backup_vars == <<version, installed, init_file, python313_backup, userapi_backup,
                 python36_backup, runs313, runs36>>

import_vars == <<hook_version, on_path, meta_path, sys_modules, stack, retval, importing, status>>

connect_vars == <<api, connected, made, connect_op, was_connected, retries, tried, fresh, outcome>>

singleton_vars == <<_instance, objects, _api, _connected, _lock, constructed,
                    spc, self_of, got, ops_left>>

flight_vars == <<flight_pc, step, results, issued>>

(* The connection helpers and the flight test, which the shims never touch *)
helper_vars == <<connect_vars, singleton_vars, flight_vars>>

(* What the single call leaves alone *)
beyond_pack == <<thread_vars, array_vars, patch_vars, backup_vars, import_vars, helper_vars>>

(* What the threads leave alone *)
beyond_threads == <<pack_vars, array_vars, patch_vars, backup_vars, import_vars, helper_vars>>

(* What the arrays leave alone *)
beyond_array == <<pack_vars, thread_vars, patch_vars, backup_vars, import_vars, helper_vars>>

(* What patching leaves alone *)
beyond_patch == <<pack_vars, thread_vars, array_vars, backup_vars, import_vars, helper_vars>>

(* What the patchers of the installed files leave alone *)
beyond_backup == <<pack_vars, thread_vars, array_vars, patch_vars, import_vars, helper_vars>>

(* What the import system leaves alone *)
beyond_import == <<pack_vars, thread_vars, array_vars, patch_vars, backup_vars, helper_vars>>

(* What a SafePyHulaConnection leaves alone *)
beyond_connect == <<pack_vars, thread_vars, array_vars, patch_vars, backup_vars, import_vars,
                    singleton_vars, flight_vars>>

(* What SingletonPyHula leaves alone *)
beyond_singleton == <<pack_vars, thread_vars, array_vars, patch_vars, backup_vars, import_vars,
                      connect_vars, flight_vars>>

(* What the flight test leaves alone *)
beyond_flight == <<pack_vars, thread_vars, array_vars, patch_vars, backup_vars, import_vars,
                   connect_vars, singleton_vars>>

vars == <<pack_vars, thread_vars, array_vars, patch_vars, backup_vars, import_vars, helper_vars>>

(* The longest format, in fields, of the inputs that vary every field. *)
MaxFields == 2

(* The calls each thread makes. *)
MaxCallsPerThread == 2

(* The longest bytes object given to an array. *)
MaxBytes == 2

(* The longest script of imports and patch calls. *)
MaxOps == 4

(* The runs of each patcher of the installed files. *)
MaxRuns == 2

(* The frames the interpreter allows before it raises RecursionError. *)
RecursionLimit == 8

----------------------------------------------------------------------------
(* Unbounded integers.                                                     *)

Front(s) == SubSeq(s, 1, Len(s) - 1)

Zeros(n) == [i \in 1..n |-> 0]

Reverse(s) == [i \in 1..Len(s) |-> s[Len(s) + 1 - i]]

RECURSIVE StripZeros(_)
StripZeros(m) ==
    IF m = <<>> THEN <<>>
    ELSE IF m[Len(m)] = 0 THEN StripZeros(Front(m))
    ELSE m

RECURSIVE NatLimbs(_)
NatLimbs(n) == IF n = 0 THEN <<>> ELSE <<n % 256>> \o NatLimbs(n \div 256)

(* m * k + c on limbs, for small k and c *)
RECURSIVE MulAdd(_, _, _)
MulAdd(m, k, c) ==
    IF m = <<>> THEN NatLimbs(c)
    ELSE LET t == m[1] * k + c
         IN  <<t % 256>> \o MulAdd(Tail(m), k, t \div 256)

(* -1, 0 or 1 as magnitude a is below, equal to or above magnitude b *)
RECURSIVE CmpMag(_, _)
CmpMag(a, b) ==
    IF Len(a) # Len(b) THEN (IF Len(a) < Len(b) THEN -1 ELSE 1)
    ELSE IF a = <<>> THEN 0
    ELSE IF a[Len(a)] # b[Len(b)] THEN (IF a[Len(a)] < b[Len(b)] THEN -1 ELSE 1)
    ELSE CmpMag(Front(a), Front(b))

PyInt(neg, m) ==
    LET n == StripZeros(m)
    IN  [kind |-> "int", neg |-> (neg /\ n # <<>>), mag |-> n, frac |-> 0, str |-> <<>>]

PyBool(b) ==
    [kind |-> "bool", neg |-> FALSE, mag |-> (IF b THEN <<1>> ELSE <<>>), frac |-> 0, str |-> <<>>]

PyFloat(neg, m, tenths) ==
    [kind |-> "float", neg |-> neg, mag |-> StripZeros(m), frac |-> tenths, str |-> <<>>]

PyInf(neg) ==
    [kind |-> "float", neg |-> neg, mag |-> <<>>, frac |-> 0, str |-> <<"inf">>]

PyNaN == [kind |-> "float", neg |-> FALSE, mag |-> <<>>, frac |-> 0, str |-> <<"nan">>]

PyStr(chars) ==
    [kind |-> "str", neg |-> FALSE, mag |-> <<>>, frac |-> 0, str |-> chars]

PyNone == [kind |-> "none", neg |-> FALSE, mag |-> <<>>, frac |-> 0, str |-> <<>>]

(* An instance of a class of the caller: caps names the conversion methods *)
(* it defines ("__int__", "__index__"); a call of one returns the int      *)
(* (neg, m), or raises when fails.                                          *)
PyObj(caps, fails, neg, m) ==
    [kind |-> "obj", neg |-> neg, mag |-> StripZeros(m),
     frac |-> (IF fails THEN 1 ELSE 0), str |-> caps]

Raise(type, message) ==
    [kind |-> "raise", neg |-> FALSE, mag |-> <<>>, frac |-> 0, str |-> <<type, message>>]

Nat2Int(n) == PyInt(FALSE, NatLimbs(n))

(* x <= y on int values *)
IntLE(x, y) ==
    IF x.neg /\ ~y.neg THEN TRUE
    ELSE IF ~x.neg /\ y.neg THEN FALSE
    ELSE IF ~x.neg THEN CmpMag(x.mag, y.mag) <= 0
    ELSE CmpMag(x.mag, y.mag) >= 0

(* 2^k, 2^k - 1 and 2^k + 1 as magnitudes *)
Pow2(k) == Zeros(k \div 8) \o <<2 ^ (k % 8)>>

Pow2m1(k) == [i \in 1..(k \div 8) |-> 255] \o (IF k % 8 = 0 THEN <<>> ELSE <<2 ^ (k % 8) - 1>>)

Pow2p1(k) == MulAdd(Pow2(k), 1, 1)

----------------------------------------------------------------------------
(* The interpreter's conversions the shims call.                           *)

Digits == {"0", "1", "2", "3", "4", "5", "6", "7", "8", "9"}

DigitVal(c) ==
    CASE c = "0" -> 0 [] c = "1" -> 1 [] c = "2" -> 2 [] c = "3" -> 3 [] c = "4" -> 4
      [] c = "5" -> 5 [] c = "6" -> 6 [] c = "7" -> 7 [] c = "8" -> 8 [] c = "9" -> 9

(* ord(c): the code point of a character *)
py_ord(c) ==
    IF c \in Digits THEN 48 + DigitVal(c)
    ELSE CASE c = "+" -> 43 [] c = "-" -> 45 [] c = "." -> 46
           [] c = "a" -> 97 [] c = "b" -> 98 [] c = "c" -> 99

RECURSIVE DecimalLimbs(_, _)
DecimalLimbs(acc, digits) ==
    IF digits = <<>> THEN acc
    ELSE DecimalLimbs(MulAdd(acc, 10, DigitVal(digits[1])), Tail(digits))

(* int(value) for a str: an optional sign and decimal digits, else ValueError *)
int_of_str(chars) ==
    LET signed == chars # <<>> /\ chars[1] \in {"+", "-"}
        body   == IF signed THEN Tail(chars) ELSE chars
    IN  IF body # <<>> /\ \A i \in 1..Len(body) : body[i] \in Digits
        THEN PyInt(signed /\ chars[1] = "-", DecimalLimbs(<<>>, body))
        ELSE Raise("ValueError", "invalid literal for int() with base 10")

(* float(value) for a str: an optional sign, decimal digits and at most one *)
(* point, with a digit somewhere; the float keeps the first decimal        *)
float_of_str(chars) ==
    LET signed == chars # <<>> /\ chars[1] \in {"+", "-"}
        body   == IF signed THEN Tail(chars) ELSE chars
        dots   == {i \in 1..Len(body) : body[i] = "."}
        dot    == IF dots = {} THEN Len(body) + 1 ELSE CHOOSE i \in dots : TRUE
        whole  == SubSeq(body, 1, dot - 1)
        part   == SubSeq(body, dot + 1, Len(body))
    IN  IF /\ Cardinality(dots) <= 1
           /\ whole \o part # <<>>
           /\ \A i \in 1..Len(whole \o part) : (whole \o part)[i] \in Digits
        THEN PyFloat(signed /\ chars[1] = "-", DecimalLimbs(<<>>, whole),
                     IF part = <<>> THEN 0 ELSE DigitVal(part[1]))
        ELSE Raise("ValueError", "could not convert string to float")

(* value.isdigit() for a str *)
isdigit(chars) == chars # <<>> /\ \A i \in 1..Len(chars) : chars[i] \in Digits

(* '.' in value *)
has_point(chars) == \E i \in 1..Len(chars) : chars[i] = "."

(* value.replace('.', '') *)
without_points(chars) == SelectSeq(chars, LAMBDA c : c # ".")

(* What int(value) and round(value) raise for a float that is not finite *)
float_not_finite(value) ==
    IF value.str = <<"inf">>
    THEN Raise("OverflowError", "cannot convert float infinity to integer")
    ELSE Raise("ValueError", "cannot convert float NaN to integer")

(* round(value) for a float: to the nearest integer, a half to the even one *)
round_of_float(value) ==
    LET odd == value.mag # <<>> /\ value.mag[1] % 2 = 1
        up  == value.frac > 5 \/ (value.frac = 5 /\ odd)
    IN  IF value.str # <<>> THEN float_not_finite(value)
        ELSE PyInt(value.neg, IF up THEN MulAdd(value.mag, 1, 1) ELSE value.mag)

(* A faulty int(value) for a float: to the nearest integer. *)
int_of_float_rounded(value) == round_of_float(value)

(* int(value) for a float: the fraction is dropped (toward zero) *)
int_of_float(value) ==
    IF value.str # <<>> THEN float_not_finite(value) ELSE PyInt(value.neg, value.mag)

(* value.is_integer() for a float *)
is_integer(value) == value.str = <<>> /\ value.frac = 0

(* int(float(value)) for a str *)
int_of_float_of_str(chars) ==
    IF float_of_str(chars).kind = "raise" THEN float_of_str(chars)
    ELSE int_of_float(float_of_str(chars))

(* int(value) for an int or a bool *)
int_of_int(value) == PyInt(value.neg, value.mag)

(* hasattr(value, '__int__') *)
has_int(value) ==
    \/ value.kind \in {"int", "bool", "float"}
    \/ value.kind = "obj" /\ \E i \in 1..Len(value.str) : value.str[i] = "__int__"

(* whether the value defines __index__ *)
has_index(value) ==
    \/ value.kind \in {"int", "bool"}
    \/ value.kind = "obj" /\ \E i \in 1..Len(value.str) : value.str[i] = "__index__"

(* What a conversion method of an object returns or raises *)
obj_converted(value) ==
    IF value.frac # 0 THEN Raise("ValueError", "conversion failed")
    ELSE PyInt(value.neg, value.mag)

(* int(value) for a value that is no str and no float: __int__, else *)
(* __index__, else TypeError                                         *)
int_of_obj(value) ==
    IF value.kind \in {"int", "bool"} THEN int_of_int(value)
    ELSE IF value.kind = "obj" /\ (has_int(value) \/ has_index(value)) THEN obj_converted(value)
    ELSE Raise("TypeError", "int() argument must be a string, a bytes-like object or a real number")

(* min(a, b) and max(a, b) on ints *)
py_min(a, b) == IF IntLE(b, a) /\ b # a THEN b ELSE a

py_max(a, b) == IF IntLE(a, b) /\ b # a THEN b ELSE a

----------------------------------------------------------------------------
(* struct.pack of the interpreter (CPython 3.13 on 64-bit Windows, the      *)
(* runtime the shims are installed for): what every shim delegates to.     *)

PrefixChars == {"<", ">", "!", "=", "@"}

IntCodes == {"b", "B", "h", "H", "i", "I", "l", "L", "q", "Q"}

FloatCodes == {"f", "d"}

FormatCodes == IntCodes \cup FloatCodes \cup {"x"}

SignedCodes == {"b", "h", "i", "l", "q"}

CodeSize(c) ==
    CASE c \in {"b", "B", "x"} -> 1
      [] c \in {"h", "H"} -> 2
      [] c \in {"i", "I", "l", "L", "f"} -> 4
      [] c \in {"q", "Q", "d"} -> 8

(* Whether int v fits the field of code c *)
InRange(c, v) ==
    LET n == CodeSize(c)
    IN  IF c \in SignedCodes
        THEN \/ Len(v.mag) < n
             \/ /\ Len(v.mag) = n
                /\ \/ v.mag[n] < 128
                   \/ v.neg /\ v.mag = Zeros(n - 1) \o <<128>>
        ELSE ~v.neg /\ Len(v.mag) <= n

(* 256^Len(m) - m on limbs: the two's complement of a padded magnitude *)
RECURSIVE TwosComplement(_, _)
TwosComplement(m, carry) ==
    IF m = <<>> THEN <<>>
    ELSE LET t == (255 - m[1]) + carry
         IN  <<t % 256>> \o TwosComplement(Tail(m), t \div 256)

(* The n bytes of in-range int v, least significant first *)
LittleEndian(v, n) ==
    LET padded == v.mag \o Zeros(n - Len(v.mag))
    IN  IF v.neg THEN TwosComplement(padded, 1) ELSE padded

FieldBytes(order, v, n) ==
    IF order \in {">", "!"} THEN Reverse(LittleEndian(v, n)) ELSE LittleEndian(v, n)

Packed(bytes, floats) ==
    [ok |-> TRUE, bytes |-> bytes, floats |-> floats, exc |-> "", msg |-> ""]

Failed(type, message) ==
    [ok |-> FALSE, bytes |-> <<>>, floats |-> <<>>, exc |-> type, msg |-> message]

(* The fields of a format body: repeat counts expanded, or the error *)
RECURSIVE ExpandCodes(_, _)
ExpandCodes(s, count) ==
    IF s = <<>>
    THEN [err |-> (IF count >= 0 THEN "repeat count given without format specifier" ELSE ""),
          fields |-> <<>>]
    ELSE IF s[1] \in Digits
    THEN ExpandCodes(Tail(s), (IF count < 0 THEN 0 ELSE count) * 10 + DigitVal(s[1]))
    ELSE IF s[1] \in FormatCodes
    THEN LET rest == ExpandCodes(Tail(s), -1)
         IN  IF rest.err # "" THEN rest
             ELSE [err |-> "",
                   fields |-> [i \in 1..(IF count < 0 THEN 1 ELSE count) |-> s[1]] \o rest.fields]
    ELSE [err |-> "bad char in struct format", fields |-> <<>>]

ParseFormat(fmt) ==
    LET prefixed == fmt # <<>> /\ fmt[1] \in PrefixChars
        parsed   == ExpandCodes(IF prefixed THEN Tail(fmt) ELSE fmt, -1)
    IN  [order |-> (IF prefixed THEN fmt[1] ELSE "@"), err |-> parsed.err, fields |-> parsed.fields]

(* operator.index(v) for a value that defines __index__ *)
index_of(v) == IF v.kind = "obj" THEN obj_converted(v) ELSE int_of_int(v)

(* A value packed into an 'f' or 'd' field, as the float it denotes *)
AsFloat(v) ==
    [kind |-> "float", neg |-> v.neg, mag |-> v.mag, frac |-> v.frac,
     str |-> (IF v.kind = "float" THEN v.str ELSE <<>>)]

(* The bytes of the fields in turn; native order aligns each field to its size. *)
(* A float field holds zero bytes here and its value in floats.                *)
RECURSIVE PackFields(_, _, _, _, _)
PackFields(order, fields, args, out, floats) ==
    IF fields = <<>> THEN Packed(out, floats)
    ELSE LET c  == fields[1]
             n  == CodeSize(c)
             at == IF order = "@" THEN out \o Zeros((n - (Len(out) % n)) % n) ELSE out
         IN  IF c = "x" THEN PackFields(order, Tail(fields), args, at \o <<0>>, floats)
             ELSE IF c \in IntCodes
             THEN IF ~has_index(args[1])
                  THEN Failed("struct.error", "required argument is not an integer")
                  ELSE IF index_of(args[1]).kind = "raise"
                  THEN Failed(index_of(args[1]).str[1], index_of(args[1]).str[2])
                  ELSE IF ~InRange(c, index_of(args[1]))
                  THEN Failed("struct.error", "format requires")
                  ELSE PackFields(order, Tail(fields), Tail(args),
                                  at \o FieldBytes(order, index_of(args[1]), n), floats)
             ELSE IF args[1].kind # "float" /\ ~has_index(args[1])
                  THEN Failed("struct.error", "required argument is not a float")
                  ELSE IF args[1].kind # "float" /\ index_of(args[1]).kind = "raise"
                  THEN Failed(index_of(args[1]).str[1], index_of(args[1]).str[2])
                  ELSE PackFields(order, Tail(fields), Tail(args),
                                  at \o Zeros(n), floats \o <<AsFloat(args[1])>>)

(* struct.pack(fmt, *args) before any patch *)
struct_pack(fmt, args) ==
    LET p      == ParseFormat(fmt)
        wanted == Len(SelectSeq(p.fields, LAMBDA c : c # "x"))
    IN  IF p.err # "" THEN Failed("struct.error", p.err)
        ELSE IF Len(args) # wanted
        THEN Failed("struct.error", "pack expected items for packing")
        ELSE PackFields(p.order, p.fields, args, <<>>, <<>>)

(* Whether a conversion in the loop raised, and the call's outcome then: *)
(* the first exception, which leaves the loop and the shim.             *)
Raised(converted) == \E i \in 1..Len(converted) : converted[i].kind = "raise"

FirstRaised(converted) ==
    LET i == CHOOSE j \in 1..Len(converted) :
                 /\ converted[j].kind = "raise"
                 /\ \A k \in 1..(j - 1) : converted[k].kind # "raise"
    IN  Failed(converted[i].str[1], converted[i].str[2])

(* zip(format_chars, values): as many pairs as the shorter of the two *)
ZipLen(format_chars, vals) ==
    IF Len(format_chars) < Len(vals) THEN Len(format_chars) ELSE Len(vals)

----------------------------------------------------------------------------
(* src/pyhula/__init__.py: the shim pyhula installs when it is imported.   *)

_original_pack(fmt, args) == struct_pack(fmt, args)

_format_chars(format_string) == SelectSeq(format_string, LAMBDA c : c \notin PrefixChars)

(* ord(value[0]) if value else 0 *)
_str_fallback(value) ==
    IF value.str # <<>> THEN Nat2Int(py_ord(value.str[1])) ELSE Nat2Int(0)

(* A faulty bounds check: the unsigned byte's bounds for every code. *)
_bounds_checked_any_code(fmt_char, int_val) ==
    IF ~IntLE(int_val, Nat2Int(255)) THEN Nat2Int(255)
    ELSE IF int_val.neg THEN Nat2Int(0)
    ELSE int_val

(* A faulty bounds check: the upper test compares with 0 instead of 255. *)
_bounds_checked_from_zero(fmt_char, int_val) ==
    IF fmt_char = "B" /\ ~IntLE(int_val, Nat2Int(0)) THEN Nat2Int(255)
    ELSE IF fmt_char = "B" /\ int_val.neg THEN Nat2Int(0)
    ELSE int_val

(* the bounds check of the last branch: the unsigned byte only *)
_bounds_checked(fmt_char, int_val) ==
    IF fmt_char = "B" /\ ~IntLE(int_val, Nat2Int(255)) THEN Nat2Int(255)
    ELSE IF fmt_char = "B" /\ int_val.neg THEN Nat2Int(0)
    ELSE int_val

(* one turn of the loop: what is appended to converted_values *)
_converted_value(fmt_char, value) ==
    IF value.kind = "none" THEN Nat2Int(0)
    ELSE IF fmt_char \in IntCodes
    THEN IF value.kind = "str"
         THEN LET parsed == int_of_str(value.str)
              IN  IF parsed.kind = "raise" THEN _str_fallback(value) ELSE parsed
         ELSE IF value.kind = "float" THEN int_of_float(value)
         ELSE IF int_of_obj(value).kind = "raise" THEN int_of_obj(value)
         ELSE _bounds_checked(fmt_char, int_of_obj(value))
    ELSE value

_safe_struct_pack(format_string, vals) ==
    LET format_chars     == _format_chars(format_string)
        converted_values == [i \in 1..ZipLen(format_chars, vals) |->
                                _converted_value(format_chars[i], vals[i])]
    IN  IF Raised(converted_values) THEN FirstRaised(converted_values)
        ELSE _original_pack(format_string, converted_values)

----------------------------------------------------------------------------
(* utils/python313_compat.py: apply_struct_patch's safe_struct_pack.       *)

original_pack(fmt, args) == struct_pack(fmt, args)

compat_format_chars(format_string) ==
    SelectSeq(format_string, LAMBDA c : c \notin PrefixChars)

compat_str_fallback(value) ==
    IF value.str # <<>> THEN Nat2Int(py_ord(value.str[1])) ELSE Nat2Int(0)

(* A faulty bounds check: the unsigned byte wraps modulo 256. *)
compat_bounds_checked_wraps(fmt_char, int_val) ==
    IF fmt_char = "B" /\ int_val.mag # <<>>
    THEN Nat2Int(IF int_val.neg THEN (256 - int_val.mag[1]) % 256 ELSE int_val.mag[1])
    ELSE int_val

compat_bounds_checked(fmt_char, int_val) ==
    IF fmt_char = "B" /\ ~IntLE(int_val, Nat2Int(255)) THEN Nat2Int(255)
    ELSE IF fmt_char = "B" /\ int_val.neg THEN Nat2Int(0)
    ELSE int_val

(* A faulty loop body: no branch for None, which then reaches int(value). *)
compat_converted_value_no_none(fmt_char, value) ==
    IF fmt_char \in IntCodes
    THEN IF value.kind = "str"
         THEN LET parsed == int_of_str(value.str)
              IN  IF parsed.kind = "raise" THEN compat_str_fallback(value) ELSE parsed
         ELSE IF value.kind = "float" THEN int_of_float(value)
         ELSE IF value.kind = "none"
         THEN Raise("TypeError", "int() argument must be a string, a bytes-like object or a real number")
         ELSE IF int_of_obj(value).kind = "raise" THEN int_of_obj(value)
         ELSE compat_bounds_checked(fmt_char, int_of_obj(value))
    ELSE value

compat_converted_value(fmt_char, value) ==
    IF value.kind = "none" THEN Nat2Int(0)
    ELSE IF fmt_char \in IntCodes
    THEN IF value.kind = "str"
         THEN LET parsed == int_of_str(value.str)
              IN  IF parsed.kind = "raise" THEN compat_str_fallback(value) ELSE parsed
         ELSE IF value.kind = "float" THEN int_of_float(value)
         ELSE IF int_of_obj(value).kind = "raise" THEN int_of_obj(value)
         ELSE compat_bounds_checked(fmt_char, int_of_obj(value))
    ELSE value

compat_safe_struct_pack(format_string, vals) ==
    LET format_chars     == compat_format_chars(format_string)
        converted_values == [i \in 1..ZipLen(format_chars, vals) |->
                                compat_converted_value(format_chars[i], vals[i])]
    IN  IF Raised(converted_values) THEN FirstRaised(converted_values)
        ELSE original_pack(format_string, converted_values)

----------------------------------------------------------------------------
(* utils/struct_patch.py: safe_struct_pack, which converts only after the  *)
(* delegate has refused the arguments as given.                            *)

_original_struct_pack(fmt, args) == struct_pack(fmt, args)

(* [c for c in format_str if c in 'BbHhIiLlQqfd'] *)
struct_patch_format_chars(format_str) ==
    SelectSeq(format_str, LAMBDA c : c \in IntCodes \cup FloatCodes)

(* the format character of argument i (from 1) *)
struct_patch_format_char(format_chars, i) ==
    IF i <= Len(format_chars) THEN format_chars[i]
    ELSE IF format_chars # <<>> THEN format_chars[Len(format_chars)]
    ELSE "B"

(* "Convert to integer first" *)
struct_patch_int_arg(arg) ==
    IF arg.kind = "none" THEN Nat2Int(0)
    ELSE IF arg.kind = "float" THEN int_of_float(arg)
    ELSE IF arg.kind = "str"
    THEN LET parsed == int_of_str(arg.str)
         IN  IF parsed.kind = "raise" THEN Nat2Int(0) ELSE parsed
    ELSE IF has_int(arg) THEN int_of_obj(arg)
    ELSE Nat2Int(0)

(* A faulty bounds check: the upper bounds only, max(lower, ...) forgotten. *)
struct_patch_bounded_above_only(format_char, int_arg) ==
    CASE format_char = "B" -> py_min(Nat2Int(255), int_arg)
      [] format_char = "b" -> py_min(PyInt(FALSE, Pow2m1(7)), int_arg)
      [] format_char = "H" -> py_min(Nat2Int(65535), int_arg)
      [] format_char = "h" -> py_min(PyInt(FALSE, Pow2m1(15)), int_arg)
      [] format_char \in {"I", "L"} -> py_min(PyInt(FALSE, Pow2m1(32)), int_arg)
      [] format_char \in {"i", "l"} -> py_min(PyInt(FALSE, Pow2m1(31)), int_arg)
      [] format_char = "Q" -> py_min(PyInt(FALSE, Pow2m1(64)), int_arg)
      [] format_char = "q" -> py_min(PyInt(FALSE, Pow2m1(63)), int_arg)
      [] OTHER -> int_arg

(* "Apply bounds checking based on format character" *)
struct_patch_bounded(format_char, int_arg) ==
    CASE format_char = "B" -> py_max(Nat2Int(0), py_min(Nat2Int(255), int_arg))
      [] format_char = "b" -> py_max(PyInt(TRUE, Pow2(7)), py_min(PyInt(FALSE, Pow2m1(7)), int_arg))
      [] format_char = "H" -> py_max(Nat2Int(0), py_min(Nat2Int(65535), int_arg))
      [] format_char = "h" -> py_max(PyInt(TRUE, Pow2(15)), py_min(PyInt(FALSE, Pow2m1(15)), int_arg))
      [] format_char \in {"I", "L"} -> py_max(Nat2Int(0), py_min(PyInt(FALSE, Pow2m1(32)), int_arg))
      [] format_char \in {"i", "l"} ->
            py_max(PyInt(TRUE, Pow2(31)), py_min(PyInt(FALSE, Pow2m1(31)), int_arg))
      [] format_char = "Q" -> py_max(Nat2Int(0), py_min(PyInt(FALSE, Pow2m1(64)), int_arg))
      [] format_char = "q" ->
            py_max(PyInt(TRUE, Pow2(63)), py_min(PyInt(FALSE, Pow2m1(63)), int_arg))
      [] OTHER -> int_arg

(* whether the handler converts: the two messages it looks for *)
struct_patch_retries(failure) ==
    /\ failure.exc \in {"struct.error", "TypeError"}
    /\ failure.msg \in {"required argument is not an integer", "format requires"}

(* one turn of the loop: what is appended to converted_args *)
struct_patch_converted_arg(format_char, arg) ==
    LET int_arg == struct_patch_int_arg(arg)
    IN  IF int_arg.kind = "raise" THEN int_arg ELSE struct_patch_bounded(format_char, int_arg)

struct_patch_safe_struct_pack(format_str, args) ==
    LET first          == _original_struct_pack(format_str, args)
        format_chars   == struct_patch_format_chars(format_str)
        converted_args == [i \in 1..Len(args) |->
                              struct_patch_converted_arg(
                                  struct_patch_format_char(format_chars, i), args[i])]
    IN  IF first.ok THEN first
        ELSE IF ~struct_patch_retries(first) THEN first
        ELSE IF Raised(converted_args) THEN FirstRaised(converted_args)
        ELSE _original_struct_pack(format_str, converted_args)

----------------------------------------------------------------------------
(* experimental/pyhula_compatible.py: Python313CompatibleStruct.pack, which *)
(* converts every argument whatever the format, and converts again when    *)
(* the delegate has refused a field for not being an integer.              *)

self_original_pack(fmt, args) == struct_pack(fmt, args)

(* A faulty conversion: the fraction is dropped, as the primary shim does. *)
compatible_int_of_float_truncating(arg) == int_of_float(arg)

(* int(arg) if arg.is_integer() else round(arg) *)
compatible_int_of_float(arg) ==
    IF is_integer(arg) THEN int_of_float(arg) ELSE round_of_float(arg)

(* int(float(arg)) if '.' in arg else int(arg); the str itself on ValueError *)
compatible_int_of_str(arg) ==
    LET parsed == IF has_point(arg.str) THEN int_of_float_of_str(arg.str)
                  ELSE int_of_str(arg.str)
    IN  IF parsed.kind = "raise" THEN arg ELSE parsed

(* int(arg); the argument itself on ValueError or TypeError *)
compatible_int_of_other(arg) ==
    IF int_of_obj(arg).kind = "raise" THEN arg ELSE int_of_obj(arg)

(* one turn of the first loop: what is appended to converted_args *)
compatible_converted_arg(arg) ==
    IF arg.kind = "float" THEN compatible_int_of_float(arg)
    ELSE IF arg.kind = "bool" THEN int_of_int(arg)
    ELSE IF arg.kind = "str" THEN compatible_int_of_str(arg)
    ELSE IF has_int(arg) THEN compatible_int_of_other(arg)
    ELSE arg

(* one turn of the second loop: what is appended to aggressive_converted *)
compatible_aggressive_arg(arg) ==
    IF arg.kind \in {"int", "bool"} THEN int_of_int(arg)
    ELSE IF arg.kind = "float" THEN compatible_int_of_float(arg)
    ELSE IF arg.kind = "str"
    THEN IF isdigit(arg.str) THEN int_of_str(arg.str)
         ELSE IF isdigit(without_points(arg.str))
         THEN (IF int_of_float_of_str(arg.str).kind = "raise" THEN Nat2Int(0)
               ELSE int_of_float_of_str(arg.str))
         ELSE IF arg.str # <<>> THEN Nat2Int(py_ord(arg.str[1]))
         ELSE Nat2Int(0)
    ELSE IF arg.kind = "none" THEN Nat2Int(0)
    ELSE IF int_of_obj(arg).kind = "raise" THEN Nat2Int(0)
    ELSE int_of_obj(arg)

(* "required argument is not an integer" in str(e), for a struct.error *)
not_an_integer(failure) ==
    failure.exc = "struct.error" /\ failure.msg = "required argument is not an integer"

Python313CompatibleStruct_pack(fmt, args) ==
    LET converted_args       == [i \in 1..Len(args) |-> compatible_converted_arg(args[i])]
        first                == self_original_pack(fmt, converted_args)
        aggressive_converted == [i \in 1..Len(args) |->
                                    compatible_aggressive_arg(converted_args[i])]
    IN  IF Raised(converted_args) THEN FirstRaised(converted_args)
        ELSE IF first.ok \/ ~not_an_integer(first) THEN first
        ELSE IF Raised(aggressive_converted) THEN FirstRaised(aggressive_converted)
        ELSE self_original_pack(fmt, aggressive_converted)

----------------------------------------------------------------------------
(* experimental/patch_pyhula_direct.py: python313_compatible_pack, which   *)
(* patch_struct_module installs, and _python313_struct_pack, the text that *)
(* create_init_patch writes at the head of the installed __init__.py.      *)

direct_original_pack(fmt, args) == struct_pack(fmt, args)

(* one turn of the first loop of either function *)
direct_converted_arg(arg) ==
    IF arg.kind = "float" THEN compatible_int_of_float(arg)
    ELSE IF arg.kind = "bool" THEN int_of_int(arg)
    ELSE IF arg.kind = "str" THEN compatible_int_of_str(arg)
    ELSE IF arg.kind = "none" THEN Nat2Int(0)
    ELSE IF has_int(arg) THEN compatible_int_of_other(arg)
    ELSE arg

(* one turn of the second loop: what is appended to final_args *)
direct_final_arg(arg) ==
    IF arg.kind \in {"int", "bool"} THEN int_of_int(arg)
    ELSE IF arg.kind = "float" THEN compatible_int_of_float(arg)
    ELSE IF arg.kind = "str"
    THEN (IF isdigit(arg.str) THEN int_of_str(arg.str) ELSE Nat2Int(0))
    ELSE IF arg.kind = "none" THEN Nat2Int(0)
    ELSE IF int_of_obj(arg).kind = "raise" THEN Nat2Int(0)
    ELSE int_of_obj(arg)

python313_compatible_pack(fmt, args) ==
    LET converted_args == [i \in 1..Len(args) |-> direct_converted_arg(args[i])]
        first          == direct_original_pack(fmt, converted_args)
        final_args     == [i \in 1..Len(args) |-> direct_final_arg(converted_args[i])]
    IN  IF Raised(converted_args) THEN FirstRaised(converted_args)
        ELSE IF first.ok \/ ~not_an_integer(first) THEN first
        ELSE IF Raised(final_args) THEN FirstRaised(final_args)
        ELSE direct_original_pack(fmt, final_args)

(* int(arg) if isinstance(arg, (float, bool)) or (isinstance(arg, str) and *)
(* arg.isdigit()) else (0 if arg is None else arg)                         *)
patch_code_final_arg(arg) ==
    IF arg.kind = "float" THEN int_of_float(arg)
    ELSE IF arg.kind = "bool" THEN int_of_int(arg)
    ELSE IF arg.kind = "str" /\ isdigit(arg.str) THEN int_of_str(arg.str)
    ELSE IF arg.kind = "none" THEN Nat2Int(0)
    ELSE arg

_python313_struct_pack(fmt, args) ==
    LET converted_args == [i \in 1..Len(args) |-> direct_converted_arg(args[i])]
        first          == direct_original_pack(fmt, converted_args)
        final_args     == [i \in 1..Len(args) |-> patch_code_final_arg(converted_args[i])]
    IN  IF Raised(converted_args) THEN FirstRaised(converted_args)
        ELSE IF first.ok \/ ~not_an_integer(first) THEN first
        ELSE IF Raised(final_args) THEN FirstRaised(final_args)
        ELSE direct_original_pack(fmt, final_args)

----------------------------------------------------------------------------
(* The calls: a format and its arguments, then one call of one function.   *)

Limits == {7, 8, 15, 16, 31, 32, 63, 64}

IntValues ==
    {Nat2Int(n) : n \in {0, 1, 3, 5, 254, 300}}
      \cup {PyInt(s, m) : s \in BOOLEAN,
                          m \in UNION {{Pow2(k), Pow2m1(k), Pow2p1(k)} : k \in Limits}}

FloatValues ==
    {PyFloat(s, NatLimbs(n), f) : s \in BOOLEAN, n \in {0, 3, 255, 300}, f \in {0, 5, 9}}
      \cup {PyFloat(s, m, 7) : s \in BOOLEAN, m \in {Pow2(15), Pow2(32), Pow2p1(63), Pow2(64)}}
      \cup {PyFloat(FALSE, <<2>>, 5), PyInf(FALSE), PyInf(TRUE), PyNaN}

StrValues ==
    {PyStr(c) : c \in {<<"5">>, <<"3", ".", "7">>, <<"a", "b", "c">>, <<>>, <<"-", "1">>,
                        <<"+", "7">>, <<"3", "0", "0">>, <<"7", "0", "0", "0", "0">>,
                        <<"-">>, <<"1", "2", "a">>, <<".", "5">>}}

(* instances of classes of the caller: a plain object, and objects with *)
(* __int__, __index__ or both, whose conversion returns 7 or 300 or raises *)
ObjValues ==
    {PyObj(<<>>, FALSE, FALSE, <<>>)}
      \cup {PyObj(caps, FALSE, FALSE, NatLimbs(n)) :
                caps \in {<<"__int__">>, <<"__index__">>, <<"__int__", "__index__">>},
                n \in {7, 300}}
      \cup {PyObj(caps, TRUE, FALSE, <<>>) : caps \in {<<"__int__">>, <<"__index__">>}}

AllValues ==
    IntValues \cup FloatValues \cup StrValues \cup ObjValues
      \cup {PyBool(TRUE), PyBool(FALSE), PyNone}

SmallValues ==
    {Nat2Int(1), Nat2Int(300), PyInt(TRUE, <<2>>), PyFloat(FALSE, <<3>>, 9), PyStr(<<"5">>)}

SmallCodes == {"B", "h"}

Prefixes == {<<>>, <<"<">>}

(* one field, every code, every value *)
SingleCalls ==
    {[fmt |-> p \o <<c>>, args |-> <<v>>] : p \in Prefixes, c \in IntCodes, v \in AllValues}

(* up to MaxFields fields, with too few, enough and too many arguments *)
ShortCalls ==
    UNION {{[fmt |-> p \o f, args |-> a] :
                p \in Prefixes, f \in [1..n -> SmallCodes],
                a \in UNION {[1..m -> SmallValues] : m \in 0..(n + 1)}} : n \in 1..MaxFields}

(* the 5-field unsigned-byte header, and formats with other byte orders, *)
(* repeat counts, pad bytes and float fields                             *)
FixedCalls ==
    {[fmt |-> p \o <<"B", "B", "B", "B", "B">>,
      args |-> <<Nat2Int(254), Nat2Int(0), Nat2Int(0), Nat2Int(1), Nat2Int(1)>>] : p \in Prefixes}
      \cup {[fmt |-> <<p, c>>, args |-> <<v>>] :
                p \in {">", "!", "=", "@"}, c \in {"B", "H", "i"},
                v \in {Nat2Int(258), PyInt(TRUE, <<1>>), PyFloat(FALSE, <<3>>, 9)}}
      \cup {[fmt |-> f, args |-> <<v, Nat2Int(2), Nat2Int(3)>>] :
                f \in {<<"3", "B">>, <<"<", "2", "H", "B">>, <<"B", "x", "h", "B">>,
                       <<"x", "B", "B", "B">>, <<"B", "<", "B", "B">>, <<"B", "B", "B", "2">>},
                v \in {Nat2Int(1), Nat2Int(300), PyFloat(FALSE, <<3>>, 9)}}
      \cup {[fmt |-> <<"<", c, "B">>, args |-> <<v, w>>] :
                c \in FloatCodes,
                v \in {PyFloat(FALSE, <<1>>, 5), Nat2Int(1), PyStr(<<"5">>), PyNone},
                w \in {Nat2Int(1), Nat2Int(300), PyFloat(FALSE, <<3>>, 9)}}

Calls == SingleCalls \cup ShortCalls \cup FixedCalls

NotCalled == Failed("", "")

(* The threads: the caller's side of each *)
Threads == {1, 2}

NoCall == [fn |-> "none", fmt |-> <<>>, args |-> <<>>]

(* No thread has called, and each may call n times *)
ThreadsStart(n) ==
    /\ calling = [t \in Threads |-> NoCall]
    /\ pc = [t \in Threads |-> "idle"]
    /\ loop_i = [t \in Threads |-> 0]
    /\ converted_list = [t \in Threads |-> <<>>]
    /\ ret = [t \in Threads |-> NotCalled]
    /\ returned = {}
    /\ calls_left = [t \in Threads |-> n]

(* No array made yet *)
NotMade == [cls |-> "", ok |-> FALSE, items |-> <<>>, exc |-> ""]

(* array.array as the interpreter has it, and nothing to test *)
ArrayStart(bytes) ==
    /\ array_array = "array.array"
    /\ test_bytes = bytes
    /\ arr = NotMade
    /\ arr2 = NotMade
    /\ arr3 = NotMade

(* A function is named outermost first: the interpreter's struct.pack,   *)
(* a module's shim, or python313_compat's closure over the function it   *)
(* kept as original_pack.                                                *)
Builtin == <<"struct.pack">>

(* struct.pack as the interpreter has it, no module of the library imported *)
PatchStart ==
    /\ struct_pack_attr = Builtin
    /\ _original_struct_pack_attr = <<>>
    /\ _original_pack_attr = <<>>
    /\ script = <<>>

(* A file is the sequence of the blocks of text in it; a backup not yet *)
(* made is NoFile.                                                     *)
NoFile == <<"no file">>

(* The package as installed for interpreter v, its __init__.py being content *)
BackupStart(v, content) ==
    /\ version = v
    /\ installed = content
    /\ init_file = content
    /\ python313_backup = NoFile
    /\ userapi_backup = FALSE
    /\ python36_backup = NoFile
    /\ runs313 = 0
    /\ runs36 = 0

(* An interpreter v with the packages pkgs on its path, nothing imported *)
ImportStart(v, pkgs) ==
    /\ hook_version = v
    /\ on_path = pkgs
    /\ meta_path = <<"PathFinder">>
    /\ sys_modules = {}
    /\ stack = <<>>
    /\ retval = ""
    /\ importing = ""
    /\ status = "idle"

(* A SafePyHulaConnection as __init__ leaves it, no call made on it *)
ConnectStart ==
    /\ api = 0
    /\ connected = FALSE
    /\ made = 0
    /\ connect_op = "__init__"
    /\ was_connected = FALSE
    /\ retries = 0
    /\ tried = <<>>
    /\ fresh = 0
    /\ outcome = "none"

(* The threads that use SingletonPyHula *)
Users == {1, 2}

(* The class as its body leaves it, and each thread with n calls to make *)
SingletonStart(n) ==
    /\ _instance = 0
    /\ objects = 0
    /\ _api = <<>>
    /\ _connected = <<>>
    /\ _lock = 0
    /\ constructed = 0
    /\ spc = [t \in Users |-> "idle"]
    /\ self_of = [t \in Users |-> 0]
    /\ got = [t \in Users |-> <<>>]
    /\ ops_left = [t \in Users |-> n]

(* test_flight_sequence at p, no step taken *)
FlightStart(p) ==
    /\ flight_pc = p
    /\ step = 0
    /\ results = <<>>
    /\ issued = <<>>

(* The helpers unused *)
HelpersStart ==
    /\ ConnectStart
    /\ SingletonStart(0)
    /\ FlightStart("off")

Init ==
    /\ \E c \in Calls : call_format = c.fmt /\ call_values = c.args
    /\ callee = "none"
    /\ result = NotCalled
    /\ ThreadsStart(0)
    /\ ArrayStart(<<>>)
    /\ PatchStart
    /\ BackupStart("3.13", <<>>)
    /\ ImportStart("3.13", {})
    /\ HelpersStart

(* struct.pack(...) with no patch installed *)
Call_struct_pack ==
    /\ callee = "none"
    /\ callee' = "struct.pack"
    /\ result' = struct_pack(call_format, call_values)
    /\ UNCHANGED <<call_format, call_values, beyond_pack>>

(* struct.pack(...) after import pyhula *)
Call__safe_struct_pack ==
    /\ callee = "none"
    /\ callee' = "pyhula"
    /\ result' = _safe_struct_pack(call_format, call_values)
    /\ UNCHANGED <<call_format, call_values, beyond_pack>>

(* struct.pack(...) after python313_compat.apply_struct_patch() *)
Call_compat_safe_struct_pack ==
    /\ callee = "none"
    /\ callee' = "python313_compat"
    /\ result' = compat_safe_struct_pack(call_format, call_values)
    /\ UNCHANGED <<call_format, call_values, beyond_pack>>

(* struct.pack(...) after struct_patch.patch_struct_module() *)
Call_struct_patch_safe_struct_pack ==
    /\ callee = "none"
    /\ callee' = "struct_patch"
    /\ result' = struct_patch_safe_struct_pack(call_format, call_values)
    /\ UNCHANGED <<call_format, call_values, beyond_pack>>

(* Python313CompatibleStruct().pack(...) of pyhula_compatible *)
Call_Python313CompatibleStruct_pack ==
    /\ callee = "none"
    /\ callee' = "pyhula_compatible"
    /\ result' = Python313CompatibleStruct_pack(call_format, call_values)
    /\ UNCHANGED <<call_format, call_values, beyond_pack>>

(* struct.pack(...) after patch_pyhula_direct.patch_struct_module() *)
Call_python313_compatible_pack ==
    /\ callee = "none"
    /\ callee' = "patch_pyhula_direct"
    /\ result' = python313_compatible_pack(call_format, call_values)
    /\ UNCHANGED <<call_format, call_values, beyond_pack>>

(* struct.pack(...) after import of the __init__.py that create_init_patch wrote *)
Call__python313_struct_pack ==
    /\ callee = "none"
    /\ callee' = "patch_code"
    /\ result' = _python313_struct_pack(call_format, call_values)
    /\ UNCHANGED <<call_format, call_values, beyond_pack>>

Next ==
    \/ Call_struct_pack
    \/ Call__safe_struct_pack
    \/ Call_compat_safe_struct_pack
    \/ Call_struct_patch_safe_struct_pack
    \/ Call_Python313CompatibleStruct_pack
    \/ Call_python313_compatible_pack
    \/ Call__python313_struct_pack

Spec == Init /\ [][Next]_vars

----------------------------------------------------------------------------
(* The same shims a statement at a time, called by several threads: the    *)
(* shim pyhula installs (src/pyhula/__init__.py) and struct_patch's. Each  *)
(* thread calls, runs the body of the function and takes what it returns.  *)

ThreadCalls ==
    {[fn |-> f, fmt |-> c.fmt, args |-> c.args] :
        f \in {"pyhula", "struct_patch"},
        c \in {[fmt |-> <<"<", "B", "h">>, args |-> <<PyFloat(FALSE, <<3>>, 9), Nat2Int(300)>>],
               [fmt |-> <<"B", "B">>, args |-> <<PyStr(<<"5">>), PyInf(FALSE)>>],
               [fmt |-> <<"B">>, args |-> <<Nat2Int(1)>>]}}

InitThreads ==
    /\ call_format = <<>>
    /\ call_values = <<>>
    /\ callee = "none"
    /\ result = NotCalled
    /\ ThreadsStart(MaxCallsPerThread)
    /\ ArrayStart(<<>>)
    /\ PatchStart
    /\ BackupStart("3.13", <<>>)
    /\ ImportStart("3.13", {})
    /\ HelpersStart

(* A faulty frame: the locals of every call in one place. *)
frame_shared(t) == 1

(* The frame of thread t's call, which holds the locals of that call only *)
frame(t) == t

(* A faulty start of the list: what the call before left in it. *)
new_list_kept(t) == converted_list[t]

(* converted_values = [] / converted_args = [] *)
new_list(t) == <<>>

(* What the statement appends, or the exception that ends the call *)
Appended(t, v) ==
    IF v.kind = "raise"
    THEN /\ ret' = [ret EXCEPT ![t] = Failed(v.str[1], v.str[2])]
         /\ pc' = [pc EXCEPT ![t] = "done"]
         /\ UNCHANGED <<loop_i, converted_list>>
    ELSE /\ converted_list' = [converted_list EXCEPT ![frame(t)] = Append(@, v)]
         /\ loop_i' = [loop_i EXCEPT ![t] = @ + 1]
         /\ UNCHANGED <<ret, pc>>

(* struct.pack(format_string, *values) is called: the frame is entered *)
Enter(t) ==
    /\ pc[t] = "idle"
    /\ calls_left[t] > 0
    /\ \E c \in ThreadCalls :
          /\ calling' = [calling EXCEPT ![t] = c]
          /\ IF c.fn = "pyhula"
             THEN /\ converted_list' = [converted_list EXCEPT ![frame(t)] = new_list(t)]
                  /\ pc' = [pc EXCEPT ![t] = "loop"]
             ELSE /\ pc' = [pc EXCEPT ![t] = "first"]
                  /\ UNCHANGED converted_list
    /\ loop_i' = [loop_i EXCEPT ![t] = 1]
    /\ calls_left' = [calls_left EXCEPT ![t] = @ - 1]
    /\ UNCHANGED <<ret, returned, beyond_threads>>

(* _safe_struct_pack: one turn of the for loop *)
Loop__safe_struct_pack(t) ==
    /\ pc[t] = "loop"
    /\ calling[t].fn = "pyhula"
    /\ loop_i[t] <= ZipLen(_format_chars(calling[t].fmt), calling[t].args)
    /\ Appended(t, _converted_value(_format_chars(calling[t].fmt)[loop_i[t]],
                                    calling[t].args[loop_i[t]]))
    /\ UNCHANGED <<calling, returned, calls_left, beyond_threads>>

(* _safe_struct_pack: return _original_pack(format_string, *converted_values) *)
Delegate__safe_struct_pack(t) ==
    /\ pc[t] = "loop"
    /\ calling[t].fn = "pyhula"
    /\ loop_i[t] > ZipLen(_format_chars(calling[t].fmt), calling[t].args)
    /\ ret' = [ret EXCEPT ![t] = _original_pack(calling[t].fmt, converted_list[frame(t)])]
    /\ pc' = [pc EXCEPT ![t] = "done"]
    /\ UNCHANGED <<calling, loop_i, converted_list, returned, calls_left, beyond_threads>>

(* struct_patch.safe_struct_pack: the try, and the test of the handler *)
First_safe_struct_pack(t) ==
    /\ pc[t] = "first"
    /\ LET first == _original_struct_pack(calling[t].fmt, calling[t].args)
       IN  IF first.ok \/ ~struct_patch_retries(first)
           THEN /\ ret' = [ret EXCEPT ![t] = first]
                /\ pc' = [pc EXCEPT ![t] = "done"]
                /\ UNCHANGED converted_list
           ELSE /\ converted_list' = [converted_list EXCEPT ![frame(t)] = new_list(t)]
                /\ pc' = [pc EXCEPT ![t] = "loop"]
                /\ UNCHANGED ret
    /\ UNCHANGED <<calling, loop_i, returned, calls_left, beyond_threads>>

(* struct_patch.safe_struct_pack: one turn of the for loop of the handler *)
Loop_safe_struct_pack(t) ==
    /\ pc[t] = "loop"
    /\ calling[t].fn = "struct_patch"
    /\ loop_i[t] <= Len(calling[t].args)
    /\ Appended(t, struct_patch_converted_arg(
                       struct_patch_format_char(struct_patch_format_chars(calling[t].fmt),
                                                loop_i[t]),
                       calling[t].args[loop_i[t]]))
    /\ UNCHANGED <<calling, returned, calls_left, beyond_threads>>

(* struct_patch.safe_struct_pack: "Retry with converted arguments" *)
Retry_safe_struct_pack(t) ==
    /\ pc[t] = "loop"
    /\ calling[t].fn = "struct_patch"
    /\ loop_i[t] > Len(calling[t].args)
    /\ ret' = [ret EXCEPT ![t] = _original_struct_pack(calling[t].fmt, converted_list[frame(t)])]
    /\ pc' = [pc EXCEPT ![t] = "done"]
    /\ UNCHANGED <<calling, loop_i, converted_list, returned, calls_left, beyond_threads>>

(* The caller takes the bytes or the exception; the frame is left *)
Return(t) ==
    /\ pc[t] = "done"
    /\ returned' = returned \cup {[fn |-> calling[t].fn, fmt |-> calling[t].fmt,
                                    args |-> calling[t].args, ret |-> ret[t]]}
    /\ calling' = [calling EXCEPT ![t] = NoCall]
    /\ ret' = [ret EXCEPT ![t] = NotCalled]
    /\ pc' = [pc EXCEPT ![t] = "idle"]
    /\ UNCHANGED <<loop_i, converted_list, calls_left, beyond_threads>>

NextThreads ==
    \E t \in Threads :
        \/ Enter(t)
        \/ Loop__safe_struct_pack(t)
        \/ Delegate__safe_struct_pack(t)
        \/ First_safe_struct_pack(t)
        \/ Loop_safe_struct_pack(t)
        \/ Retry_safe_struct_pack(t)
        \/ Return(t)

SpecThreads == InitThreads /\ [][NextThreads]_vars

----------------------------------------------------------------------------
(* The array patch: utils/array_patch.py, python313_compat.apply_array_patch *)
(* and src/pyhula/__init__.py each replace array.array by a subclass with a  *)
(* fromstring method, on an interpreter whose array.array has none. A bytes  *)
(* object is the sequence of its bytes, a str the sequence of its code       *)
(* points; an array of type code 'B' is the sequence of its elements.        *)

PyBytes(items) == [kind |-> "bytes", items |-> items]

PyText(points) == [kind |-> "str", items |-> points]

(* An array of class cls after a method returned, or the exception raised *)
ArrayOf(cls, items) == [cls |-> cls, ok |-> TRUE, items |-> items, exc |-> ""]

ArrayRaised(cls, exc) == [cls |-> cls, ok |-> FALSE, items |-> <<>>, exc |-> exc]

(* A faulty encoding: UTF-8, two bytes for a code point from 128. *)
RECURSIVE encode_utf8(_)
encode_utf8(points) ==
    IF points = <<>> THEN PyBytes(<<>>)
    ELSE LET rest == encode_utf8(Tail(points))
             p    == points[1]
         IN  IF rest.kind = "raise" \/ p > 2047 THEN Raise("UnicodeEncodeError", "surrogates not allowed")
             ELSE IF p < 128 THEN PyBytes(<<p>> \o rest.items)
             ELSE PyBytes(<<192 + (p \div 64), 128 + (p % 64)>> \o rest.items)

(* s.encode('latin-1'): a code point up to 255 is the byte of that value *)
encode_latin_1(points) ==
    IF \E i \in 1..Len(points) : points[i] > 255
    THEN Raise("UnicodeEncodeError", "ordinal not in range(256)")
    ELSE PyBytes(points)

(* array('B').frombytes(s): the bytes are appended as elements *)
frombytes(cls, items, s) ==
    IF s.kind # "bytes" THEN ArrayRaised(cls, "TypeError")
    ELSE ArrayOf(cls, items \o s.items)

(* array_patch.CompatibleArray.fromstring *)
CompatibleArray_fromstring(cls, items, s) ==
    LET encoded == IF s.kind = "str" THEN encode_latin_1(s.items) ELSE s
    IN  IF encoded.kind = "raise" THEN ArrayRaised(cls, encoded.str[1])
        ELSE frombytes(cls, items, encoded)

(* python313_compat's CompatibleArray.fromstring *)
compat_CompatibleArray_fromstring(cls, items, s) ==
    LET encoded == IF s.kind = "str" THEN encode_latin_1(s.items) ELSE s
    IN  IF encoded.kind = "raise" THEN ArrayRaised(cls, encoded.str[1])
        ELSE frombytes(cls, items, encoded)

(* pyhula's _CompatibleArray.fromstring *)
_CompatibleArray_fromstring(cls, items, s) ==
    LET encoded == IF s.kind = "str" THEN encode_latin_1(s.items) ELSE s
    IN  IF encoded.kind = "raise" THEN ArrayRaised(cls, encoded.str[1])
        ELSE frombytes(cls, items, encoded)

(* array.array('B').fromstring(s) with array.array bound to cls *)
fromstring(cls, s) ==
    CASE cls = "array_patch" -> CompatibleArray_fromstring(cls, <<>>, s)
      [] cls = "python313_compat" -> compat_CompatibleArray_fromstring(cls, <<>>, s)
      [] cls = "pyhula" -> _CompatibleArray_fromstring(cls, <<>>, s)
      [] OTHER -> ArrayRaised(cls, "AttributeError")

ByteValues == {0, 1, 65, 127, 128, 255}

InitArray ==
    /\ call_format = <<>>
    /\ call_values = <<>>
    /\ callee = "none"
    /\ result = NotCalled
    /\ ThreadsStart(0)
    /\ \E n \in 0..MaxBytes : \E bytes \in [1..n -> ByteValues] : ArrayStart(bytes)
    /\ PatchStart
    /\ BackupStart("3.13", <<>>)
    /\ ImportStart("3.13", {})
    /\ HelpersStart

(* hasattr(array.array, 'fromstring') *)
has_fromstring == array_array # "array.array"

(* array_patch.patch_array_module() *)
patch_array_module ==
    /\ array_array' = IF has_fromstring THEN array_array ELSE "array_patch"
    /\ UNCHANGED <<test_bytes, arr, arr2, arr3, beyond_array>>

(* python313_compat.apply_array_patch() *)
apply_array_patch ==
    /\ array_array' = IF has_fromstring THEN array_array ELSE "python313_compat"
    /\ UNCHANGED <<test_bytes, arr, arr2, arr3, beyond_array>>

(* import pyhula on Python 3.13 *)
import_pyhula_array ==
    /\ array_array' = IF has_fromstring THEN array_array ELSE "pyhula"
    /\ UNCHANGED <<test_bytes, arr, arr2, arr3, beyond_array>>

(* arr = array.array('B'); arr.fromstring(test_bytes) *)
Test_fromstring_bytes ==
    /\ arr = NotMade
    /\ arr' = fromstring(array_array, PyBytes(test_bytes))
    /\ UNCHANGED <<array_array, test_bytes, arr2, arr3, beyond_array>>

(* arr2 = array.array('B'); arr2.fromstring(test_string) *)
Test_fromstring_str ==
    /\ arr2 = NotMade
    /\ arr2' = fromstring(array_array, PyText(test_bytes))
    /\ UNCHANGED <<array_array, test_bytes, arr, arr3, beyond_array>>

(* arr3 = array.array('B'); arr3.frombytes(test_bytes) *)
Test_frombytes ==
    /\ arr3 = NotMade
    /\ arr3' = frombytes(array_array, <<>>, PyBytes(test_bytes))
    /\ UNCHANGED <<array_array, test_bytes, arr, arr2, beyond_array>>

NextArray ==
    \/ patch_array_module
    \/ apply_array_patch
    \/ import_pyhula_array
    \/ Test_fromstring_bytes
    \/ Test_fromstring_str
    \/ Test_frombytes

SpecArray == InitArray /\ [][NextArray]_vars

----------------------------------------------------------------------------
(* Installing and removing the shims: what the name struct.pack is bound   *)
(* to after each statement of a script that imports the modules and calls  *)
(* their patch functions.                                                  *)

InitPatch ==
    /\ call_format = <<>>
    /\ call_values = <<>>
    /\ callee = "none"
    /\ result = NotCalled
    /\ ThreadsStart(0)
    /\ ArrayStart(<<>>)
    /\ PatchStart
    /\ BackupStart("3.13", <<>>)
    /\ ImportStart("3.13", {})
    /\ HelpersStart

(* The statement op ran: struct.pack before it and after it *)
Ran(op, after) ==
    /\ Len(script) < MaxOps
    /\ struct_pack_attr' = after
    /\ script' = Append(script, [op |-> op, before |-> struct_pack_attr, after |-> after])

(* import struct_patch: _original_struct_pack = struct.pack *)
import_struct_patch ==
    /\ _original_struct_pack_attr = <<>>
    /\ _original_struct_pack_attr' = struct_pack_attr
    /\ Ran("import struct_patch", struct_pack_attr)
    /\ UNCHANGED <<_original_pack_attr, beyond_patch>>

(* import pyhula on Python 3.13: _original_pack = struct.pack; *)
(* struct.pack = _safe_struct_pack                             *)
import_pyhula ==
    /\ _original_pack_attr = <<>>
    /\ _original_pack_attr' = struct_pack_attr
    /\ Ran("import pyhula", <<"pyhula">>)
    /\ UNCHANGED <<_original_struct_pack_attr, beyond_patch>>

(* python313_compat.apply_struct_patch(): original_pack = struct.pack; *)
(* struct.pack = safe_struct_pack, a new closure                       *)
apply_struct_patch ==
    /\ Ran("apply_struct_patch", <<"python313_compat">> \o struct_pack_attr)
    /\ UNCHANGED <<_original_struct_pack_attr, _original_pack_attr, beyond_patch>>

(* struct_patch.patch_struct_module() *)
patch_struct_module ==
    /\ _original_struct_pack_attr # <<>>
    /\ Ran("patch_struct_module", <<"struct_patch">>)
    /\ UNCHANGED <<_original_struct_pack_attr, _original_pack_attr, beyond_patch>>

(* struct_patch.unpatch_struct_module() *)
unpatch_struct_module ==
    /\ _original_struct_pack_attr # <<>>
    /\ Ran("unpatch_struct_module", _original_struct_pack_attr)
    /\ UNCHANGED <<_original_struct_pack_attr, _original_pack_attr, beyond_patch>>

NextPatch ==
    \/ import_struct_patch
    \/ import_pyhula
    \/ apply_struct_patch
    \/ patch_struct_module
    \/ unpatch_struct_module

SpecPatch == InitPatch /\ [][NextPatch]_vars

----------------------------------------------------------------------------
(* The patchers of the installed files: experimental/patch_pyhula_direct.py *)
(* and experimental/fix_python36.py copy __init__.py to a backup directory  *)
(* and put their patch code before its text.                                *)

(* __init__.py as a release has it: code, nothing, or this port's own shim *)
InstalledContents == {<<"code">>, <<>>, <<"Python 3.13+ compatibility patches", "code">>}

InitBackup ==
    /\ call_format = <<>>
    /\ call_values = <<>>
    /\ callee = "none"
    /\ result = NotCalled
    /\ ThreadsStart(0)
    /\ ArrayStart(<<>>)
    /\ PatchStart
    /\ \E v \in {"3.6", "3.13"} : \E content \in InstalledContents : BackupStart(v, content)
    /\ ImportStart("3.13", {})
    /\ HelpersStart

(* marker in content *)
Contains(content, marker) == \E i \in 1..Len(content) : content[i] = marker

(* patch_code + original_content *)
Patched313(content) == <<"Python 3.13 compatibility patch">> \o content

Patched36(content) == <<"Python 3.6 compatibility patch">> \o content

(* shutil.copy2(src_path, backup_path): the file at backup_path afterwards *)
copy2(src, dst) == src

(* create_init_patch(pyhula_dir): __init__.py afterwards *)
create_init_patch(content) ==
    IF Contains(content, "Python 3.13 compatibility patch") THEN content
    ELSE Patched313(content)

(* patch_pyhula_direct.main() *)
main ==
    /\ runs313 < MaxRuns
    /\ runs313' = runs313 + 1
    /\ IF version # "3.13"
       THEN UNCHANGED <<init_file, python313_backup, userapi_backup>>
       ELSE /\ python313_backup' = copy2(init_file, python313_backup)
            /\ userapi_backup' = TRUE
            /\ init_file' = create_init_patch(init_file)
    /\ UNCHANGED <<version, installed, python36_backup, runs36, beyond_backup>>

(* fix_python36.patch_python36_pyhula(pyhula_dir) *)
patch_python36_pyhula ==
    /\ runs36 < MaxRuns
    /\ runs36' = runs36 + 1
    /\ python36_backup' = copy2(init_file, python36_backup)
    /\ init_file' = IF Contains(init_file, "Python 3.6 compatibility patch") THEN init_file
                    ELSE Patched36(init_file)
    /\ UNCHANGED <<version, installed, python313_backup, userapi_backup, runs313, beyond_backup>>

(* "Copy files from {backup_dir} back to {pyhula_dir}" *)
copy_back ==
    /\ python313_backup # NoFile
    /\ init_file' = python313_backup
    /\ UNCHANGED <<version, installed, python313_backup, userapi_backup, python36_backup,
                   runs313, runs36, beyond_backup>>

(* "The patches are permanent until you reinstall PyHula." *)
reinstall ==
    /\ init_file' = installed
    /\ UNCHANGED <<version, installed, python313_backup, userapi_backup, python36_backup,
                   runs313, runs36, beyond_backup>>

NextBackup ==
    \/ main
    \/ patch_python36_pyhula
    \/ copy_back
    \/ reinstall

SpecBackup == InitBackup /\ [][NextBackup]_vars

----------------------------------------------------------------------------
(* The import hook of experimental/pyhula_py313_fix.py: a finder put first *)
(* in sys.meta_path. An import statement asks the finders of sys.meta_path *)
(* in turn (importlib._bootstrap._find_spec); the frames of the calls in   *)
(* progress are the stack, innermost last.                                 *)

InitImport ==
    /\ call_format = <<>>
    /\ call_values = <<>>
    /\ callee = "none"
    /\ result = NotCalled
    /\ ThreadsStart(0)
    /\ ArrayStart(<<>>)
    /\ PatchStart
    /\ BackupStart("3.13", <<>>)
    /\ \E v \in {"3.12", "3.13"} : \E pkgs \in SUBSET {"pyhula", "serial"} : ImportStart(v, pkgs)
    /\ HelpersStart

(* sys.version_info >= (3, 13) *)
AtLeast313 == hook_version = "3.13"

HookInstalled == \E i \in 1..Len(meta_path) : meta_path[i] = "PyHulaCompatibilityFinder"

Top == stack[Len(stack)]

(* A call is made: a frame more, or RecursionError at the limit, which *)
(* no frame catches and which ends the import statement                *)
Push(called) ==
    IF Len(stack) >= RecursionLimit
    THEN /\ stack' = <<>>
         /\ status' = "RecursionError"
         /\ retval' = ""
    ELSE /\ stack' = Append(stack, called)
         /\ UNCHANGED <<status, retval>>

(* The innermost call returns value *)
Pop(value) ==
    /\ stack' = Front(stack)
    /\ retval' = value
    /\ UNCHANGED status

(* install_hook(), run when pyhula_py313_fix is imported *)
install_hook ==
    /\ stack = <<>>
    /\ meta_path' = IF AtLeast313 /\ ~HookInstalled
                    THEN <<"PyHulaCompatibilityFinder">> \o meta_path
                    ELSE meta_path
    /\ UNCHANGED <<hook_version, on_path, sys_modules, stack, retval, importing, status,
                   beyond_import>>

(* import name: a module in sys.modules is taken from there, else the *)
(* finders are asked                                                  *)
import_statement ==
    /\ stack = <<>>
    /\ retval = ""
    /\ status # "RecursionError"
    /\ \E name \in {"pyhula", "serial"} :
          /\ importing' = name
          /\ IF name \in sys_modules
             THEN /\ status' = "imported"
                  /\ UNCHANGED stack
             ELSE /\ status' = "importing"
                  /\ stack' = <<[fn |-> "_find_spec", name |-> name, i |-> 1]>>
    /\ UNCHANGED <<hook_version, on_path, meta_path, sys_modules, retval, beyond_import>>

(* _find_spec: the next finder of sys.meta_path is asked *)
_find_spec ==
    /\ stack # <<>>
    /\ retval = ""
    /\ Top.fn = "_find_spec"
    /\ IF Top.i > Len(meta_path) THEN Pop("None")
       ELSE IF meta_path[Top.i] = "PyHulaCompatibilityFinder"
       THEN Push([fn |-> "find_spec", name |-> Top.name, i |-> 0])
       ELSE IF Top.name \in on_path THEN Pop("spec")
       ELSE /\ stack' = [stack EXCEPT ![Len(stack)].i = @ + 1]
            /\ UNCHANGED <<retval, status>>
    /\ UNCHANGED <<hook_version, on_path, meta_path, sys_modules, importing, beyond_import>>

(* PyHulaCompatibilityFinder.find_spec, up to importlib.util.find_spec(fullname) *)
find_spec ==
    /\ stack # <<>>
    /\ retval = ""
    /\ Top.fn = "find_spec"
    /\ IF Top.name = "pyhula" /\ AtLeast313
       THEN Push([fn |-> "importlib.util.find_spec", name |-> Top.name, i |-> 0])
       ELSE Pop("None")
    /\ UNCHANGED <<hook_version, on_path, meta_path, sys_modules, importing, beyond_import>>

(* importlib.util.find_spec(fullname): the spec of a module in sys.modules, *)
(* else the finders are asked                                              *)
importlib_util_find_spec ==
    /\ stack # <<>>
    /\ retval = ""
    /\ Top.fn = "importlib.util.find_spec"
    /\ IF Top.name \in sys_modules THEN Pop("spec")
       ELSE Push([fn |-> "_find_spec", name |-> Top.name, i |-> 1])
    /\ UNCHANGED <<hook_version, on_path, meta_path, sys_modules, importing, beyond_import>>

(* importlib.util.find_spec, from the return of _find_spec *)
importlib_util_find_spec_returns ==
    /\ stack # <<>>
    /\ retval # ""
    /\ Top.fn = "importlib.util.find_spec"
    /\ Pop(retval)
    /\ UNCHANGED <<hook_version, on_path, meta_path, sys_modules, importing, beyond_import>>

(* PyHulaCompatibilityFinder.find_spec, from the return of importlib.util.find_spec: *)
(* None, or the spec with its loader wrapped                                        *)
find_spec_returns ==
    /\ stack # <<>>
    /\ retval # ""
    /\ Top.fn = "find_spec"
    /\ Pop(IF retval = "None" THEN "None" ELSE "wrapped")
    /\ UNCHANGED <<hook_version, on_path, meta_path, sys_modules, importing, beyond_import>>

(* _find_spec, from the return of a finder: the spec, or the next finder *)
_find_spec_returns ==
    /\ stack # <<>>
    /\ retval # ""
    /\ Top.fn = "_find_spec"
    /\ IF retval = "None"
       THEN /\ stack' = [stack EXCEPT ![Len(stack)].i = @ + 1]
            /\ retval' = ""
            /\ UNCHANGED status
       ELSE Pop(retval)
    /\ UNCHANGED <<hook_version, on_path, meta_path, sys_modules, importing, beyond_import>>

(* The import statement, from the return of _find_spec: the module is loaded, *)
(* by PyHulaCompatibilityLoader when the loader was wrapped                    *)
import_statement_returns ==
    /\ stack = <<>>
    /\ retval # ""
    /\ importing # ""
    /\ retval' = ""
    /\ IF retval = "None"
       THEN /\ status' = "ModuleNotFoundError"
            /\ UNCHANGED sys_modules
       ELSE /\ status' = IF retval = "wrapped" THEN "imported and patched" ELSE "imported"
            /\ sys_modules' = sys_modules \cup {importing}
    /\ UNCHANGED <<hook_version, on_path, meta_path, stack, importing, beyond_import>>

(* PyHulaCompatibilityFinder().find_spec(name, None), called as it stands *)
call_find_spec ==
    /\ stack = <<>>
    /\ retval = ""
    /\ status # "RecursionError"
    /\ importing' = ""
    /\ status' = "finding"
    /\ \E name \in {"pyhula", "serial"} :
          stack' = <<[fn |-> "find_spec", name |-> name, i |-> 0]>>
    /\ UNCHANGED <<hook_version, on_path, meta_path, sys_modules, retval, beyond_import>>

(* the caller of find_spec takes None or the spec *)
call_find_spec_returns ==
    /\ stack = <<>>
    /\ retval # ""
    /\ importing = ""
    /\ retval' = ""
    /\ status' = retval
    /\ UNCHANGED <<hook_version, on_path, meta_path, sys_modules, stack, importing, beyond_import>>

NextImport ==
    \/ install_hook
    \/ import_statement
    \/ call_find_spec
    \/ call_find_spec_returns
    \/ _find_spec
    \/ find_spec
    \/ importlib_util_find_spec
    \/ importlib_util_find_spec_returns
    \/ find_spec_returns
    \/ _find_spec_returns
    \/ import_statement_returns

SpecImport == InitImport /\ [][NextImport]_vars

----------------------------------------------------------------------------
(* Vocabulary of the properties.                                           *)

Order(fmt) == IF fmt # <<>> /\ fmt[1] \in PrefixChars THEN fmt[1] ELSE "@"

Codes(fmt) == IF fmt # <<>> /\ fmt[1] \in PrefixChars THEN Tail(fmt) ELSE fmt

(* A format that is a sequence of integer fields, one code each *)
IntegerFields(fmt) ==
    /\ Codes(fmt) # <<>>
    /\ \A i \in 1..Len(Codes(fmt)) : Codes(fmt)[i] \in IntCodes

RECURSIVE SizeSum(_, _)
SizeSum(codes, n) == IF n = 0 THEN 0 ELSE CodeSize(codes[n]) + SizeSum(codes, n - 1)

(* Little-endian fields laid end to end: the standard layout "<", or the *)
(* native one when no field needs alignment padding                      *)
LittleEndianFields(fmt) ==
    /\ IntegerFields(fmt)
    /\ \/ Order(fmt) = "<"
       \/ /\ Order(fmt) = "@"
          /\ \A i \in 1..Len(Codes(fmt)) :
                SizeSum(Codes(fmt), i - 1) % CodeSize(Codes(fmt)[i]) = 0

RangeMin(c) ==
    IF c \in SignedCodes THEN PyInt(TRUE, Pow2(8 * CodeSize(c) - 1)) ELSE Nat2Int(0)

RangeMax(c) ==
    IF c \in SignedCodes THEN PyInt(FALSE, Pow2m1(8 * CodeSize(c) - 1))
    ELSE PyInt(FALSE, Pow2m1(8 * CodeSize(c)))

Fits(c, v) == IntLE(RangeMin(c), v) /\ IntLE(v, RangeMax(c))

Nearest(c, v) ==
    IF ~IntLE(RangeMin(c), v) THEN RangeMin(c)
    ELSE IF ~IntLE(v, RangeMax(c)) THEN RangeMax(c)
    ELSE v

Finite(v) == v.str = <<>>

TruncTowardZero(v) == PyInt(v.neg, v.mag)

(* a + b on limbs *)
RECURSIVE AddLimbs(_, _, _)
AddLimbs(a, b, carry) ==
    IF a = <<>> /\ b = <<>> THEN NatLimbs(carry)
    ELSE LET x == IF a = <<>> THEN 0 ELSE a[1]
             y == IF b = <<>> THEN 0 ELSE b[1]
             t == x + y + carry
         IN  <<t % 256>> \o AddLimbs(IF a = <<>> THEN a ELSE Tail(a),
                                     IF b = <<>> THEN b ELSE Tail(b), t \div 256)

(* The reference encoder, stated by value: bytes is the n-byte little-endian *)
(* two's-complement encoding of int v when the number it spells is v, or is  *)
(* 256^n - |v| for a negative v.                                             *)
IsEncoding(bytes, v, n) ==
    /\ Len(bytes) = n
    /\ \A i \in 1..n : bytes[i] \in 0..255
    /\ IF v.neg THEN AddLimbs(bytes, v.mag, 0) = Zeros(n) \o <<1>>
       ELSE StripZeros(bytes) = v.mag

(* bytes is the reference encoding of vals in the fields codes, end to end *)
IsConcatenation(bytes, codes, vals) ==
    /\ Len(bytes) = SizeSum(codes, Len(codes))
    /\ \A i \in 1..Len(codes) :
          IsEncoding(SubSeq(bytes, SizeSum(codes, i - 1) + 1, SizeSum(codes, i)),
                     vals[i], CodeSize(codes[i]))

(* What function name returns for a call *)
Returned(name, fmt, vals) ==
    CASE name = "struct.pack" -> struct_pack(fmt, vals)
      [] name = "pyhula" -> _safe_struct_pack(fmt, vals)
      [] name = "python313_compat" -> compat_safe_struct_pack(fmt, vals)
      [] name = "struct_patch" -> struct_patch_safe_struct_pack(fmt, vals)
      [] name = "pyhula_compatible" -> Python313CompatibleStruct_pack(fmt, vals)
      [] name = "patch_pyhula_direct" -> python313_compatible_pack(fmt, vals)
      [] name = "patch_code" -> _python313_struct_pack(fmt, vals)

(* field i of the call: it has a code and a value *)
Fields == 1..ZipLen(Codes(call_format), call_values)

OneField == Len(Codes(call_format)) = 1 /\ Len(call_values) = 1

With(i, v) == [call_values EXCEPT ![i] = v]

----------------------------------------------------------------------------
(* experimental/safe_pyhula_connection.py: SafePyHulaConnection, a wrapper *)
(* of one UserApi that makes it anew and connects again after an error.    *)

(* The most retries a caller asks for. *)
MaxRetries == 2

(* The UserApi instances after which no further call is followed. *)
MaxApis == 3

(* The names the module's import statements bind *)
module_imports == {"sys", "time", "threading", "traceback"}

(* What a call of api.connect() does: it returns a value that is true or  *)
(* one that is false, or it raises struct.error, an OSError whose text    *)
(* has 10048, another OSError, or an exception of another class           *)
ConnectOutcomes == {"truthy", "falsy", "struct.error", "OSError 10048", "OSError", "Exception"}

(* A connection: the fields of the object and the history of the call *)
Conn(a, c, m, t, f, o) ==
    [api |-> a, connected |-> c, made |-> m, tried |-> t, fresh |-> f, outcome |-> o]

(* self.disconnect(): connected is cleared when there is an api that is    *)
(* connected, unless api.disconnect() raises, which the method swallows    *)
disconnect_connected(a, c, disconnect_raises) ==
    IF a # 0 /\ c /\ ~disconnect_raises THEN FALSE ELSE c

(* self.create_api(): the previous instance is disconnected, and a new   *)
(* UserApi is made unless pyhula.UserApi() raises; outcome is the return *)
(* value                                                                  *)
create_api_of(conn, disconnect_raises, UserApi_raises) ==
    LET c == IF conn.api # 0
             THEN disconnect_connected(conn.api, conn.connected, disconnect_raises)
             ELSE conn.connected
    IN IF UserApi_raises
       THEN Conn(conn.api, c, conn.made, conn.tried, conn.fresh, "False")
       ELSE Conn(conn.made + 1, c, conn.made + 1, conn.tried, conn.fresh, "True")

(* The except clause that takes exception e raised in the try block of   *)
(* connect. The clauses are tried in order and the first is              *)
(* "except struct.error": its expression is evaluated whatever e is, and *)
(* the name struct is bound only if the module imports it.               *)
except_clause(e) ==
    IF "struct" \notin module_imports THEN "NameError"
    ELSE IF e = "struct.error" THEN "struct.error"
    ELSE IF e \in {"OSError 10048", "OSError"} THEN "OSError"
    ELSE "Exception"

(* The for loop of connect from the given attempt on: responses[attempt + 1] *)
(* is what api.connect() does in that attempt                              *)
RECURSIVE connect_loop(_, _, _, _, _, _)
connect_loop(conn, n, attempt, responses, disconnect_raises, UserApi_raises) ==
    IF attempt >= n THEN [conn EXCEPT !.outcome = "False"]
    ELSE
      LET e == responses[attempt + 1]
          called == [conn EXCEPT !.tried = Append(@, e)]
          again == [create_api_of(called, disconnect_raises, UserApi_raises)
                      EXCEPT !.fresh = @ + 1]
      IN IF e = "truthy" THEN [called EXCEPT !.connected = TRUE, !.outcome = "True"]
         ELSE IF e = "falsy" THEN [called EXCEPT !.outcome = "False"]
         ELSE IF except_clause(e) = "NameError" THEN [called EXCEPT !.outcome = "NameError"]
         ELSE IF except_clause(e) = "struct.error" \/ (except_clause(e) = "OSError" /\ e = "OSError 10048")
              THEN IF attempt < n - 1
                   THEN connect_loop(again, n, attempt + 1, responses, disconnect_raises, UserApi_raises)
                   ELSE [called EXCEPT !.outcome = "False"]
         ELSE IF except_clause(e) = "OSError" THEN [called EXCEPT !.outcome = "False"]
         ELSE IF attempt < n - 1
              THEN connect_loop(called, n, attempt + 1, responses, disconnect_raises, UserApi_raises)
              ELSE [called EXCEPT !.outcome = "False"]

(* self.connect(server_ip, retries=n): whether server_ip is given only   *)
(* chooses between api.connect(server_ip) and api.connect()              *)
connect_of(conn, n, responses, disconnect_raises, UserApi_raises) ==
    LET created == IF conn.api = 0
                   THEN create_api_of(conn, disconnect_raises, UserApi_raises)
                   ELSE conn
    IN IF conn.api = 0 /\ created.outcome = "False" THEN created
       ELSE connect_loop(created, n, 0, responses, disconnect_raises, UserApi_raises)

InitConnect ==
    /\ call_format = <<>>
    /\ call_values = <<>>
    /\ callee = "none"
    /\ result = NotCalled
    /\ ThreadsStart(0)
    /\ ArrayStart(<<>>)
    /\ PatchStart
    /\ BackupStart("3.13", <<>>)
    /\ ImportStart("3.13", {})
    /\ ConnectStart
    /\ SingletonStart(0)
    /\ FlightStart("off")

(* The call op found the object in state conn and left it as after *)
Called(op, n, before, after) ==
    /\ connect_op' = op
    /\ was_connected' = before.connected
    /\ retries' = n
    /\ api' = after.api
    /\ connected' = after.connected
    /\ made' = after.made
    /\ tried' = after.tried
    /\ fresh' = after.fresh
    /\ outcome' = after.outcome
    /\ UNCHANGED beyond_connect

(* The object as the next call finds it *)
Self == Conn(api, connected, made, <<>>, 0, "none")

(* conn.create_api() *)
create_api ==
    /\ made < MaxApis
    /\ \E disconnect_raises, UserApi_raises \in BOOLEAN :
        Called("create_api", 0, Self, create_api_of(Self, disconnect_raises, UserApi_raises))

(* conn.connect(server_ip, retries) *)
connect ==
    /\ made < MaxApis
    /\ \E n \in 0..MaxRetries : \E responses \in [1..n -> ConnectOutcomes] :
       \E disconnect_raises, UserApi_raises \in BOOLEAN :
        Called("connect", n, Self, connect_of(Self, n, responses, disconnect_raises, UserApi_raises))

(* conn.disconnect() *)
disconnect ==
    /\ made < MaxApis
    /\ \E disconnect_raises \in BOOLEAN :
        Called("disconnect", 0, Self,
               [Self EXCEPT !.connected = disconnect_connected(api, connected, disconnect_raises),
                            !.outcome = "None"])

(* safe_connect(server_ip, retries): connect on a new SafePyHulaConnection *)
safe_connect ==
    /\ made < MaxApis
    /\ \E n \in 0..MaxRetries : \E responses \in [1..n -> ConnectOutcomes] :
       \E disconnect_raises, UserApi_raises \in BOOLEAN :
        LET conn == Conn(0, FALSE, made, <<>>, 0, "none")
        IN Called("safe_connect", n, conn,
                  connect_of(conn, n, responses, disconnect_raises, UserApi_raises))

NextConnect ==
    \/ create_api
    \/ connect
    \/ disconnect
    \/ safe_connect

SpecConnect == InitConnect /\ [][NextConnect]_vars

----------------------------------------------------------------------------
(* experimental/pyhula_connection_fix.py: SingletonPyHula, used by several *)
(* threads at once. A thread may be switched out between any two           *)
(* statements; the body of connect runs under the class's _lock.           *)

(* The calls each thread makes of SingletonPyHula() and connect(). *)
MaxUserCalls == 3

(* What pyhula.UserApi() and api.connect() do in one run of connect's body *)
UserApiOutcomes == {"instance", "raises"}

InitSingleton ==
    /\ call_format = <<>>
    /\ call_values = <<>>
    /\ callee = "none"
    /\ result = NotCalled
    /\ ThreadsStart(0)
    /\ ArrayStart(<<>>)
    /\ PatchStart
    /\ BackupStart("3.13", <<>>)
    /\ ImportStart("3.13", {})
    /\ ConnectStart
    /\ SingletonStart(MaxUserCalls)
    /\ FlightStart("off")

(* SingletonPyHula(): __new__ tests cls._instance is None *)
new_test(t) ==
    /\ spc[t] = "idle"
    /\ ops_left[t] > 0
    /\ ops_left' = [ops_left EXCEPT ![t] = @ - 1]
    /\ spc' = [spc EXCEPT ![t] = IF _instance = 0 THEN "new_store" ELSE "new_return"]
    /\ UNCHANGED <<_instance, objects, _api, _connected, _lock, constructed, self_of, got,
                   beyond_singleton>>

(* cls._instance = super().__new__(cls): a new object, whose _api and *)
(* _connected are the class's None and False                          *)
new_store(t) ==
    /\ spc[t] = "new_store"
    /\ objects' = objects + 1
    /\ _instance' = objects + 1
    /\ _api' = Append(_api, 0)
    /\ _connected' = Append(_connected, FALSE)
    /\ spc' = [spc EXCEPT ![t] = "new_return"]
    /\ UNCHANGED <<_lock, constructed, self_of, got, ops_left, beyond_singleton>>

(* return cls._instance: the caller keeps the object as its connection *)
new_return(t) ==
    /\ spc[t] = "new_return"
    /\ got' = [got EXCEPT ![t] = Append(@, _instance)]
    /\ self_of' = [self_of EXCEPT ![t] = _instance]
    /\ spc' = [spc EXCEPT ![t] = "idle"]
    /\ UNCHANGED <<_instance, objects, _api, _connected, _lock, constructed, ops_left,
                   beyond_singleton>>

(* conn.connect(): with self._lock, once the lock is free *)
connect_acquire(t) ==
    /\ spc[t] = "idle"
    /\ self_of[t] # 0
    /\ ops_left[t] > 0
    /\ _lock = 0
    /\ _lock' = t
    /\ ops_left' = [ops_left EXCEPT ![t] = @ - 1]
    /\ spc' = [spc EXCEPT ![t] = "connect"]
    /\ UNCHANGED <<_instance, objects, _api, _connected, constructed, self_of, got,
                   beyond_singleton>>

(* The body of connect and the release of the lock on every way out:    *)
(* already connected; pyhula.UserApi() raises; api.connect() returns a  *)
(* true value, a false one, or raises                                   *)
connect_body(t) ==
    /\ spc[t] = "connect"
    /\ _lock = t
    /\ LET self == self_of[t]
       IN IF _connected[self] /\ _api[self] # 0
          THEN UNCHANGED <<_api, _connected, constructed>>
          ELSE \E made_api \in UserApiOutcomes : \E e \in ConnectOutcomes :
                 IF _api[self] = 0 /\ made_api = "raises"
                 THEN UNCHANGED <<_api, _connected, constructed>>
                 ELSE /\ _api' = IF _api[self] = 0
                                 THEN [_api EXCEPT ![self] = constructed + 1]
                                 ELSE _api
                      /\ constructed' = IF _api[self] = 0 THEN constructed + 1 ELSE constructed
                      /\ _connected' = IF e = "truthy"
                                       THEN [_connected EXCEPT ![self] = TRUE]
                                       ELSE _connected
    /\ _lock' = 0
    /\ spc' = [spc EXCEPT ![t] = "idle"]
    /\ UNCHANGED <<_instance, objects, self_of, got, ops_left, beyond_singleton>>

NextSingleton ==
    \E t \in Users :
        \/ new_test(t)
        \/ new_store(t)
        \/ new_return(t)
        \/ connect_acquire(t)
        \/ connect_body(t)

SpecSingleton == InitSingleton /\ [][NextSingleton]_vars

----------------------------------------------------------------------------
(* tests/test_hanging_commands.py: test_flight_sequence, which sends the   *)
(* drone a list of commands, each under test_with_timeout, and leaves the  *)
(* list at the first command that fails. A text is the sequence of its     *)
(* characters.                                                             *)

(* The steps of the sequence: the name of each and the method of api its *)
(* function calls ("sleep" for time.sleep)                               *)
sequence ==
    << [step_name |-> <<"C","h","e","c","k"," ","B","a","t","t","e","r","y">>, call |-> "get_battery"],
       [step_name |-> <<"A","r","m"," ","D","r","o","n","e">>, call |-> "plane_fly_arm"],
       [step_name |-> <<"W","a","i","t"," ","2","s">>, call |-> "sleep"],
       [step_name |-> <<"T","a","k","e","o","f","f">>, call |-> "single_fly_takeoff"],
       [step_name |-> <<"W","a","i","t"," ","3","s">>, call |-> "sleep"],
       [step_name |-> <<"C","h","e","c","k"," ","P","o","s","i","t","i","o","n">>, call |-> "get_coordinate"],
       [step_name |-> <<"S","m","a","l","l"," ","U","p">>, call |-> "single_fly_up"],
       [step_name |-> <<"W","a","i","t"," ","2","s">>, call |-> "sleep"],
       [step_name |-> <<"S","m","a","l","l"," ","D","o","w","n">>, call |-> "single_fly_down"],
       [step_name |-> <<"W","a","i","t"," ","2","s">>, call |-> "sleep"],
       [step_name |-> <<"L","a","n","d">>, call |-> "single_fly_touchdown"],
       [step_name |-> <<"W","a","i","t"," ","3","s">>, call |-> "sleep"],
       [step_name |-> <<"D","i","s","a","r","m">>, call |-> "plane_fly_disarm"] >>

(* sub in text: text has sub as a run of consecutive characters *)
contains(text, sub) ==
    \E i \in 0..(Len(text) - Len(sub)) : SubSeq(text, i + 1, i + Len(sub)) = sub

(* What the thread of test_with_timeout has done when join returns: the  *)
(* function returned a value, raised an exception, or is still running;  *)
(* text is str() of the value or of the exception                        *)
CommandOutcomes ==
    { [completed |-> TRUE,  error |-> FALSE, text |-> <<"T","r","u","e">>],
      [completed |-> TRUE,  error |-> FALSE, text |-> <<"N","o","n","e">>],
      [completed |-> TRUE,  error |-> TRUE,  text |-> <<"f","a","i","l","e","d">>],
      [completed |-> FALSE, error |-> FALSE, text |-> <<>>] }

(* f" ({duration:.2f}s)" *)
duration_text == <<" ","(","0",".","0","0","s",")">>

(* test_with_timeout(func, timeout_seconds): the text it returns *)
test_with_timeout(o) ==
    IF o.completed
    THEN IF o.error
         THEN <<"E","R","R","O","R",":"," ">> \o o.text \o duration_text
         ELSE <<"S","U","C","C","E","S","S",":"," ">> \o o.text \o duration_text
    ELSE <<"T","I","M","E","O","U","T"," ","a","f","t","e","r">> \o duration_text

InitFlight ==
    /\ call_format = <<>>
    /\ call_values = <<>>
    /\ callee = "none"
    /\ result = NotCalled
    /\ ThreadsStart(0)
    /\ ArrayStart(<<>>)
    /\ PatchStart
    /\ BackupStart("3.13", <<>>)
    /\ ImportStart("3.13", {})
    /\ ConnectStart
    /\ SingletonStart(0)
    /\ FlightStart("start")

(* api = pyhula.UserApi(); if not api.connect(): return *)
flight_connect ==
    /\ flight_pc = "start"
    /\ \E e \in {"truthy", "falsy"} :
         flight_pc' = IF e = "truthy" THEN "loop" ELSE "returned"
    /\ issued' = Append(issued, "connect")
    /\ UNCHANGED <<step, results, beyond_flight>>

(* The loop goes to the next step, or ends after the last *)
NextStep ==
    /\ step' = step + 1
    /\ flight_pc' = IF step + 1 = Len(sequence) THEN "returned" ELSE "loop"

(* A step with "Wait" in its name: step_func() *)
flight_wait ==
    /\ flight_pc = "loop"
    /\ contains(sequence[step + 1].step_name, <<"W","a","i","t">>)
    /\ results' = Append(results, <<>>)
    /\ NextStep
    /\ UNCHANGED <<issued, beyond_flight>>

(* Any other step: the command goes to the drone under test_with_timeout, *)
(* and a result with ERROR or TIMEOUT in it ends the loop                 *)
flight_command ==
    /\ flight_pc = "loop"
    /\ ~contains(sequence[step + 1].step_name, <<"W","a","i","t">>)
    /\ issued' = Append(issued, sequence[step + 1].call)
    /\ \E o \in CommandOutcomes :
         LET res == test_with_timeout(o)
         IN /\ results' = Append(results, res)
            /\ IF contains(res, <<"E","R","R","O","R">>) \/ contains(res, <<"T","I","M","E","O","U","T">>)
               THEN step' = step + 1 /\ flight_pc' = "returned"
               ELSE NextStep
    /\ UNCHANGED beyond_flight

NextFlight ==
    \/ flight_connect
    \/ flight_wait
    \/ flight_command

SpecFlight == InitFlight /\ [][NextFlight]_vars

----------------------------------------------------------------------------
(* C1: for every integer format code and every integer inside the field's  *)
(* range, the shim installed by pyhula (and its twin in python313_compat)  *)
(* returns the reference little-endian exact-width bytes; several such     *)
(* fields give the concatenation; the header 254 0 0 1 1 gives FE 00 00 01 *)
(* 01.                                                                     *)
C1_InRangeIntegers ==
    ( /\ callee \in {"pyhula", "python313_compat"}
      /\ LittleEndianFields(call_format)
      /\ Len(call_values) = Len(Codes(call_format))
      /\ \A i \in 1..Len(call_values) :
            call_values[i].kind = "int" /\ Fits(Codes(call_format)[i], call_values[i]) )
    => /\ result.ok
       /\ IsConcatenation(result.bytes, Codes(call_format), call_values)

C1_Witness ==
    /\ callee = "pyhula"
    /\ Codes(call_format) = <<"B", "B", "B", "B", "B">>
    /\ result.ok
    /\ result.bytes = <<254, 0, 0, 1, 1>>

(* C2: a float whose truncation fits the field is packed, by the shims of  *)
(* python313_compat and struct_patch, as its truncation toward zero.       *)
C2_FloatTruncates ==
    ( callee \in {"python313_compat", "struct_patch"} /\ IntegerFields(call_format) )
    => \A i \in Fields :
          ( /\ call_values[i].kind = "float"
            /\ Finite(call_values[i])
            /\ Fits(Codes(call_format)[i], TruncTowardZero(call_values[i])) )
          => /\ result = Returned(callee, call_format, With(i, TruncTowardZero(call_values[i])))
             /\ (OneField /\ Order(call_format) \in {"<", "@"})
                   => /\ result.ok
                      /\ IsEncoding(result.bytes, TruncTowardZero(call_values[1]),
                                    CodeSize(Codes(call_format)[1]))

C2_Witness ==
    /\ callee = "python313_compat"
    /\ call_format = <<"B">>
    /\ call_values = <<PyFloat(FALSE, <<3>>, 9)>>
    /\ result = Packed(<<3>>, <<>>)

(* C3: an int above 255 in an unsigned 1-byte field is packed as 255 and a *)
(* negative one as 0, by the shims of python313_compat and struct_patch.   *)
C3_UnsignedByteSaturates ==
    ( callee \in {"python313_compat", "struct_patch"} /\ IntegerFields(call_format) )
    => \A i \in Fields :
          ( /\ call_values[i].kind = "int"
            /\ Codes(call_format)[i] = "B"
            /\ ~Fits("B", call_values[i]) )
          => LET bound == IF call_values[i].neg THEN Nat2Int(0) ELSE Nat2Int(255)
             IN  /\ result = Returned(callee, call_format, With(i, bound))
                 /\ OneField => result = Packed(<<IF call_values[1].neg THEN 0 ELSE 255>>, <<>>)

C3_Witness ==
    /\ callee = "struct_patch"
    /\ call_format = <<"<", "B">>
    /\ call_values = <<PyInt(FALSE, Pow2(64))>>
    /\ result = Packed(<<255>>, <<>>)

(* The value an argument is coerced to, where digits or a number *)
Coerced(v) ==
    IF v.kind = "str" THEN int_of_str(v.str) ELSE TruncTowardZero(v)

Coercible(v) ==
    \/ v.kind \in {"int", "bool"}
    \/ v.kind = "float" /\ Finite(v)
    \/ v.kind = "str" /\ int_of_str(v.str).kind = "int"

(* C4: the shim installed by pyhula clamps, after coercion, every field:   *)
(* whatever the integer code and whether the value is an int, a float, a   *)
(* string of digits or a bool, the coerced value is packed as the nearest  *)
(* bound of the field's range, so the delegate never refuses it.           *)
C4_EveryFieldClamped ==
    ( /\ callee = "pyhula"
      /\ LittleEndianFields(call_format)
      /\ OneField
      /\ Coercible(call_values[1]) )
    => /\ result.ok
       /\ IsEncoding(result.bytes, Nearest(Codes(call_format)[1], Coerced(call_values[1])),
                     CodeSize(Codes(call_format)[1]))

(* C5, as stated: struct_patch's shim, given one integer field and a      *)
(* float, packs the float truncated toward zero and then clamped to the    *)
(* field's range; any negative float in an unsigned byte is packed as 0.   *)
C5_AnyFloatTruncatedThenClamped ==
    ( /\ callee = "struct_patch"
      /\ LittleEndianFields(call_format)
      /\ OneField
      /\ call_values[1].kind = "float" )
    => /\ result.ok
       /\ Finite(call_values[1])
             => IsEncoding(result.bytes,
                           Nearest(Codes(call_format)[1], TruncTowardZero(call_values[1])),
                           CodeSize(Codes(call_format)[1]))
       /\ (Codes(call_format) = <<"B">> /\ call_values[1].neg) => result.bytes = <<0>>

(* C5, amended: the same for every finite float; an infinity or a NaN has  *)
(* no truncation, int(arg) raises and the call fails with that exception.  *)
C5_FiniteFloatTruncatedThenClamped ==
    ( /\ callee = "struct_patch"
      /\ LittleEndianFields(call_format)
      /\ OneField
      /\ call_values[1].kind = "float" )
    => IF Finite(call_values[1])
       THEN /\ result.ok
            /\ IsEncoding(result.bytes,
                          Nearest(Codes(call_format)[1], TruncTowardZero(call_values[1])),
                          CodeSize(Codes(call_format)[1]))
            /\ (Codes(call_format) = <<"B">> /\ call_values[1].neg) => result.bytes = <<0>>
       ELSE ~result.ok /\ result.exc \in {"OverflowError", "ValueError"}

C5_Witness ==
    /\ callee = "struct_patch"
    /\ call_format = <<"B">>
    /\ call_values = <<PyFloat(TRUE, <<3>>, 9)>>
    /\ result = Packed(<<0>>, <<>>)

(* C6: the patched struct.pack fails whenever the number of values differs *)
(* from the number of fields, with values missing or in excess.            *)
C6_CountMismatchFails ==
    ( /\ callee \in {"pyhula", "python313_compat"}
      /\ IntegerFields(call_format)
      /\ Len(call_values) # Len(Codes(call_format)) )
    => ~result.ok

(* A string with a character no number has *)
NonNumeric(chars) == \E i \in 1..Len(chars) : chars[i] \notin Digits \cup {".", "-", "+"}

(* C7: a non-numeric string in an integer field makes the call fail; no    *)
(* substitute value is packed for it.                                      *)
C7_NonNumericStringFails ==
    ( /\ callee \in {"python313_compat", "struct_patch"}
      /\ IntegerFields(call_format)
      /\ Len(call_values) = Len(Codes(call_format)) )
    => \A i \in Fields :
          (call_values[i].kind = "str" /\ NonNumeric(call_values[i].str)) => ~result.ok

(* Strings of digits and decimal strings, after an optional sign *)
Unsigned(chars) == IF chars # <<>> /\ chars[1] \in {"+", "-"} THEN Tail(chars) ELSE chars

IsDigits(chars) == chars # <<>> /\ \A i \in 1..Len(chars) : chars[i] \in Digits

IsDecimal(chars) ==
    LET body == Unsigned(chars)
    IN  /\ Cardinality({i \in 1..Len(body) : body[i] = "."}) = 1
        /\ IsDigits(SelectSeq(body, LAMBDA c : c # "."))

(* the integer part of a decimal string, signed *)
DecimalTruncated(chars) ==
    LET body == Unsigned(chars)
        dot  == CHOOSE i \in 1..Len(body) : body[i] = "."
    IN  PyInt(chars[1] = "-", DecimalLimbs(<<>>, SubSeq(body, 1, dot - 1)))

(* C8: a numeric string is packed as the number it denotes: digits as the  *)
(* integer, digits with a decimal point as the float truncated toward zero.*)
C8_NumericStringDenotes ==
    ( callee \in {"python313_compat", "struct_patch"} /\ IntegerFields(call_format) )
    => \A i \in Fields :
          call_values[i].kind = "str"
          => /\ IsDigits(Unsigned(call_values[i].str))
                  => result = Returned(callee, call_format, With(i, int_of_str(call_values[i].str)))
             /\ IsDecimal(call_values[i].str)
                  => result = Returned(callee, call_format,
                                       With(i, DecimalTruncated(call_values[i].str)))

(* C9: True is packed as 1 and False as 0, for every integer code, by the  *)
(* shim pyhula installs (and by struct_patch's).                           *)
C9_BoolAsInteger ==
    ( callee \in {"pyhula", "struct_patch"} /\ IntegerFields(call_format) )
    => \A i \in Fields :
          call_values[i].kind = "bool"
          => LET n == IF call_values[i] = PyBool(TRUE) THEN 1 ELSE 0
             IN  /\ result = Returned(callee, call_format, With(i, Nat2Int(n)))
                 /\ (OneField /\ Order(call_format) \in {"<", "@"})
                       => result = Packed(<<n>> \o Zeros(CodeSize(Codes(call_format)[1]) - 1), <<>>)

C9_Witness ==
    /\ callee = "pyhula"
    /\ call_format = <<"<", "H">>
    /\ call_values = <<PyBool(TRUE)>>
    /\ result = Packed(<<1, 0>>, <<>>)

(* C10: None in an integer field is packed as 0 by the shims of            *)
(* python313_compat and struct_patch.                                      *)
C10_NoneAsZero ==
    ( callee \in {"python313_compat", "struct_patch"} /\ IntegerFields(call_format) )
    => \A i \in Fields :
          call_values[i].kind = "none"
          => /\ result = Returned(callee, call_format, With(i, Nat2Int(0)))
             /\ OneField => result = Packed(Zeros(CodeSize(Codes(call_format)[1])), <<>>)

C10_Witness ==
    /\ callee = "python313_compat"
    /\ call_format = <<"<", "i">>
    /\ call_values = <<PyNone>>
    /\ result = Packed(<<0, 0, 0, 0>>, <<>>)

(* An argument that is no int, float, bool, str or None *)
OtherValue(v) == v.kind = "obj"

(* Whether int(v) has a conversion to call and the conversion returns *)
Converts(v) == (has_int(v) \/ has_index(v)) /\ obj_converted(v).kind = "int"

(* C11: a value that is no int, float, bool, str or None is packed into an  *)
(* integer field, by the shims of struct_patch and python313_compat, as the *)
(* int its conversion returns; with no conversion, or one that raises, the  *)
(* call fails and packs no substitute.                                      *)
C11_OnlyThroughConversion ==
    ( callee \in {"python313_compat", "struct_patch"} /\ IntegerFields(call_format) )
    => \A i \in Fields :
          OtherValue(call_values[i])
          => IF Converts(call_values[i])
             THEN result = Returned(callee, call_format, With(i, obj_converted(call_values[i])))
             ELSE ~result.ok

(* The call thread t has finished and not yet taken, as the caller sees it *)
Finished(t) ==
    [fn |-> calling[t].fn, fmt |-> calling[t].fmt, args |-> calling[t].args, ret |-> ret[t]]

(* The calls that have finished *)
AllFinished == returned \cup {Finished(t) : t \in {u \in Threads : pc[u] = "done"}}

SameInputs(a, b) == a.fn = b.fn /\ a.fmt = b.fmt /\ a.args = b.args

(* C12: two calls of the patched struct.pack with the same format and the  *)
(* same values return the same bytes, or the same error, whatever was      *)
(* called before.                                                          *)
C12_SameInputsSameOutput ==
    \A a \in AllFinished : \A b \in AllFinished : SameInputs(a, b) => a.ret = b.ret

C12_Witness ==
    \E t \in Threads :
        /\ pc[t] = "done"
        /\ calls_left[t] = 0
        /\ ret[t] = Packed(<<3, 44, 1>>, <<>>)
        /\ \E o \in returned : SameInputs(o, Finished(t)) /\ o.ret = ret[t]

(* C13: under every interleaving of the threads, each call of the patched  *)
(* struct.pack returns what the same call returns when it runs alone.      *)
C13_AsWhenRunAlone ==
    \A a \in AllFinished : a.ret = Returned(a.fn, a.fmt, a.args)

C13_Witness ==
    /\ \A t \in Threads : pc[t] = "done" /\ Len(converted_list[t]) = 2
    /\ calling[1].fn = "pyhula" /\ calling[2].fn = "struct_patch"
    /\ ret[1] = Packed(<<3, 44, 1>>, <<>>)
    /\ ret[2] = Packed(<<3, 44, 1>>, <<>>)

(* C14: whatever the format (byte-order prefix, repeat counts, pad bytes,  *)
(* float codes), when the unpatched struct.pack accepts the arguments, the *)
(* shims of pyhula and python313_compat return what it returns.            *)
C14_ConservativeExtension ==
    ( /\ callee \in {"pyhula", "python313_compat"}
      /\ struct_pack(call_format, call_values).ok )
    => result = struct_pack(call_format, call_values)

(* An array made after array.array was replaced *)
Patched(a) == a.cls \in {"array_patch", "python313_compat", "pyhula"}

(* C15: on arrays made after the array patch, fromstring of a bytes object, *)
(* fromstring of the str with the same code points and frombytes of the    *)
(* bytes object each leave an empty 'B' array with the same elements, the  *)
(* byte values.                                                            *)
C15_FromstringAsFrombytes ==
    ( Patched(arr) /\ Patched(arr2) /\ Patched(arr3) )
    => /\ arr.ok /\ arr2.ok /\ arr3.ok
       /\ arr.items = arr3.items
       /\ arr2.items = arr3.items
       /\ arr3.items = test_bytes

C15_Witness ==
    /\ Patched(arr) /\ Patched(arr2) /\ Patched(arr3)
    /\ test_bytes = <<128, 255>>
    /\ arr2.items = <<128, 255>>

(* C16: when unpatch_struct_module() follows patch_struct_module(), the    *)
(* name struct.pack is bound again to the function it was bound to just    *)
(* before patch_struct_module() was called, whatever that was.             *)
C16_UnpatchRestores ==
    \A i \in 1..(Len(script) - 1) :
        ( script[i].op = "patch_struct_module" /\ script[i + 1].op = "unpatch_struct_module" )
        => script[i + 1].after = script[i].before

(* C17: after any runs of patch_pyhula_direct.main() and of no other      *)
(* patcher, the __init__.py in python313_backup is the file as installed; *)
(* likewise python36_backup after runs of patch_python36_pyhula.          *)
C17_BackupIsOriginal ==
    /\ ( runs313 > 0 /\ runs36 = 0 /\ python313_backup # NoFile )
          => python313_backup = installed
    /\ ( runs36 > 0 /\ runs313 = 0 ) => python36_backup = installed

(* C18: with the hook first in sys.meta_path on Python 3.13, import pyhula *)
(* does not end in RecursionError: find_spec does not enter itself again  *)
(* and again until the interpreter stops it.                              *)
C18_FindSpecTerminates ==
    ( HookInstalled /\ importing = "pyhula" ) => status # "RecursionError"

(* The secondary variants named by the claims *)
Secondary == {"pyhula_compatible", "patch_pyhula_direct"}

NonIntegral(v) == v.kind = "float" /\ Finite(v) /\ v.frac # 0

(* The integer nearest to a finite float, the even one of two as near *)
NearestInteger(v) ==
    IF v.frac > 5 \/ (v.frac = 5 /\ v.mag # <<>> /\ v.mag[1] % 2 = 1)
    THEN PyInt(v.neg, AddLimbs(v.mag, <<1>>, 0))
    ELSE PyInt(v.neg, v.mag)

(* C19: a float with a fraction, packed into an integer field, is packed   *)
(* as its truncation toward zero by python313_compat's shim and as the     *)
(* nearest integer by pyhula_compatible and patch_pyhula_direct; where the *)
(* two integers differ and fit the field, the variants return different    *)
(* bytes.                                                                  *)
C19_TruncatesVersusRounds ==
    ( OneField /\ IntegerFields(call_format) /\ NonIntegral(call_values[1]) )
    => LET v == call_values[1]
           c == Codes(call_format)[1]
       IN  /\ callee = "python313_compat"
                 => result = struct_pack(call_format, <<TruncTowardZero(v)>>)
           /\ callee \in Secondary
                 => /\ result = struct_pack(call_format, <<NearestInteger(v)>>)
                    /\ ( /\ NearestInteger(v) # TruncTowardZero(v)
                          /\ Fits(c, NearestInteger(v)) /\ Fits(c, TruncTowardZero(v)) )
                          => /\ result.ok
                             /\ Returned("python313_compat", call_format, call_values).ok
                             /\ result.bytes
                                   # Returned("python313_compat", call_format, call_values).bytes

C19_Witness ==
    /\ callee = "pyhula_compatible"
    /\ call_format = <<"B">>
    /\ call_values = <<PyFloat(FALSE, <<3>>, 9)>>
    /\ result = Packed(<<4>>, <<>>)
    /\ Returned("python313_compat", call_format, call_values) = Packed(<<3>>, <<>>)

(* The place among the float fields of field i *)
FloatIndex(i) == Cardinality({j \in 1..i : Codes(call_format)[j] \in FloatCodes})

(* C20: in pyhula_compatible, patch_pyhula_direct and the code written to  *)
(* __init__.py, a float argument whose field has the code f or d is packed *)
(* with the value it was given.                                            *)
C20_FloatFieldsKeepTheirValue ==
    ( /\ callee \in Secondary \cup {"patch_code"}
      /\ Len(call_values) = Len(Codes(call_format))
      /\ \A i \in 1..Len(Codes(call_format)) : Codes(call_format)[i] \in IntCodes \cup FloatCodes
      /\ result.ok )
    => \A i \in 1..Len(call_values) :
          ( Codes(call_format)[i] \in FloatCodes /\ call_values[i].kind = "float" )
          => result.floats[FloatIndex(i)] = call_values[i]


(* The last call on the connection was connect, directly or by safe_connect *)
ConnectCalled == connect_op \in {"connect", "safe_connect"}

(* The attempts of the last connect whose api.connect() raised struct.error *)
(* or an OSError with 10048 in its text and that were not the last allowed  *)
Retryable == {i \in 1..Len(tried) : tried[i] \in {"struct.error", "OSError 10048"} /\ i < retries}

(* C21: connect(retries=n) handles every failure of api.connect(): after  *)
(* each attempt but the last allowed in which api.connect() raises        *)
(* struct.error or an OSError with 10048 in its text, connect calls       *)
(* create_api() and makes another attempt; and whatever api.connect()     *)
(* raises, connect returns True or False and raises nothing.              *)
C21_HandlesEveryFailure ==
    ConnectCalled =>
        /\ outcome \in {"True", "False"}
        /\ \A i \in Retryable : Len(tried) > i
        /\ fresh = Cardinality(Retryable)

(* C22: connect(retries=n) calls api.connect() at most n times; it returns *)
(* True exactly when one of the calls returned a true value, and connected *)
(* is True then; and when a call returns a false value or raises an        *)
(* OSError without 10048 in its text, connect returns False with no        *)
(* further attempt and leaves connected as it found it.                    *)
C22_AtMostNCalls ==
    ConnectCalled =>
        /\ Len(tried) <= retries
        /\ (outcome = "True") <=> (\E i \in 1..Len(tried) : tried[i] = "truthy")
        /\ (outcome = "True") => connected
        /\ \A i \in 1..Len(tried) :
               tried[i] \in {"falsy", "OSError"} =>
                   /\ outcome = "False"
                   /\ Len(tried) = i
                   /\ connected = was_connected


(* The objects the calls of SingletonPyHula() have returned so far *)
Instances == UNION {{got[t][i] : i \in 1..Len(got[t])} : t \in Users}

(* C23: SingletonPyHula is one object for the whole process: every call   *)
(* of SingletonPyHula() returns the same instance, and however the        *)
(* threads' constructions and connect() calls interleave, pyhula.UserApi() *)
(* makes at most one instance.                                            *)
C23_OneInstanceOneApi ==
    /\ Cardinality(Instances) <= 1
    /\ constructed <= 1


(* The place of the step that calls the method call of api *)
StepOf(call) == CHOOSE i \in 1..Len(sequence) : sequence[i].call = call

(* The Takeoff step was taken and its result says SUCCESS *)
TakeoffSucceeded ==
    /\ Len(results) >= StepOf("single_fly_takeoff")
    /\ contains(results[StepOf("single_fly_takeoff")], <<"S","U","C","C","E","S","S">>)

(* C24: in test_flight_sequence, once the Takeoff step has completed with *)
(* success, the Land command (single_fly_touchdown) is sent to the drone  *)
(* before the sequence ends, whether the steps between Takeoff and Land   *)
(* succeed, raise or time out.                                            *)
C24_LandAfterTakeoff ==
    (flight_pc = "returned" /\ TakeoffSucceeded) =>
        \E i \in 1..Len(issued) : issued[i] = "single_fly_touchdown"

============================================================================
